---- MODULE Spec2Model ----
(***************************************************************************)
(* APEX SURVIVOR (chicken game with SSD-theory agents).                    *)
(*                                                                         *)
(* The Python program computes with binary floating point.  This module    *)
(* computes with fixed point: a real quantity q is held as the integer     *)
(* 1000*q ("milli"), products are rounded to the nearest milli, and the    *)
(* transcendental functions (exp, tanh, ln) are evaluated by short series  *)
(* in the same fixed point.  Scores, HP, ranks, rounds and sets are the    *)
(* program's own integers.                                                 *)
(*                                                                         *)
(* Random draws (numpy's and the random module's generators) are inputs:   *)
(* a draw is a milli value u in 0..999 standing for a float in [0, 1).     *)
(***************************************************************************)
EXTENDS Integers, Sequences, FiniteSets, TLC

VARIABLES
    ssd_core,            \* the SSDCore instance: its constructor parameters
    learning_modifiers,  \* the agent's learning modifiers (personality weights)
    ssd_state,           \* the agent's SSDState
    jumped,              \* what the last _check_jump returned
    last_call,           \* the SSDCore / SSDState method called last
    n_updates,           \* how many update() calls were made
    ssd_strategy,        \* an SSDStrategy instance: its constructor arguments
    choice_args,         \* the arguments of its last make_choice call
    choice_probabilities,  \* the distribution that call returned
    choice,              \* the action drawn from it (ChickenPlayer.make_choice)
    game_config,         \* the configuration dict a player was built with
    player_state,        \* that player's PlayerState
    decision_context,    \* the arguments the round hands to make_choice
    pressure_result,     \* what the two pressure aggregators computed for them
    args_seed,           \* the --seed argument of the command line
    tournament_config,   \* the configuration file's content
    games                \* per process: its generators, its ChickenGame, its position

ssd_vars == <<ssd_core, learning_modifiers, ssd_state, jumped, last_call, n_updates>>

choice_vars == <<ssd_strategy, choice_args, choice_probabilities, choice>>

pressure_vars == <<game_config, player_state, decision_context, pressure_result>>

game_vars == <<args_seed, tournament_config, games>>

vars == <<ssd_vars, choice_vars, pressure_vars, game_vars>>

\* no distribution has been returned yet
no_distribution == [num |-> <<>>, den |-> 0]

\* the parts of the program a specification does not run stay as constructed
SSDIdle ==
    /\ ssd_core = "None"
    /\ learning_modifiers = "None"
    /\ ssd_state = "None"
    /\ jumped = FALSE
    /\ last_call = "None"
    /\ n_updates = 0

ChoiceIdle ==
    /\ ssd_strategy = "None"
    /\ choice_args = "None"
    /\ choice_probabilities = no_distribution
    /\ choice = 0

PressureIdle ==
    /\ game_config = "None"
    /\ player_state = "None"
    /\ decision_context = "None"
    /\ pressure_result = "None"

GameIdle ==
    /\ args_seed = "None"
    /\ tournament_config = "None"
    /\ games = "None"

outside_ssd == <<choice_vars, pressure_vars, game_vars>>

outside_choice == <<ssd_vars, pressure_vars, game_vars>>

outside_pressure == <<ssd_vars, choice_vars, game_vars>>

outside_game == <<ssd_vars, choice_vars, pressure_vars>>

(***************************************************************************)
(* Fixed-point arithmetic                                                  *)
(***************************************************************************)
Max(a, b) == IF a >= b THEN a ELSE b

Min(a, b) == IF a <= b THEN a ELSE b

Abs(a) == IF a < 0 THEN -a ELSE a

\* n / d rounded to the nearest integer (d > 0)
RoundDiv(n, d) == (2 * n + d) \div (2 * d)

\* the product of two milli values, in milli
MulMilli(a, b) == RoundDiv(a * b, 1000)

\* int(x) of Python for a milli value x: truncation toward zero
IntOfMilli(x) == IF x >= 0 THEN x \div 1000 ELSE -((-x) \div 1000)

RECURSIVE SumSeq(_)
SumSeq(s) == IF s = <<>> THEN 0 ELSE Head(s) + SumSeq(Tail(s))

\* largest value the exponential is evaluated to (milli); above it, it saturates
ExpCap == 2 * 100000000

\* e^(f/1000) in milli for 0 <= f < 1000, by its Taylor series
ExpFrac(f) ==
    LET t1 == f
        t2 == (t1 * f) \div 2000
        t3 == (t2 * f) \div 3000
        t4 == (t3 * f) \div 4000
        t5 == (t4 * f) \div 5000
        t6 == (t5 * f) \div 6000
    IN  1000 + t1 + t2 + t3 + t4 + t5 + t6

\* e^(x/1000) in milli for x >= 0 (math.exp / np.exp), saturating at ExpCap
RECURSIVE ExpMilli(_)
ExpMilli(x) ==
    IF x < 1000 THEN ExpFrac(x)
    ELSE IF x >= 13000 THEN ExpCap
    ELSE LET h == ExpMilli(x - 1000)
         IN  Min(ExpCap, (h \div 1000) * 2718 + ((h % 1000) * 2718) \div 1000)

\* e^(-y/1000) in milli for y >= 0
ExpNegMilli(y) == RoundDiv(1000 * 1000, ExpMilli(y))

\* np.tanh(x/1000) in milli
TanhMilli(x) ==
    LET a  == Abs(x)
        en == IF a >= 6500 THEN 0 ELSE ExpNegMilli(2 * a)
        t  == RoundDiv((1000 - en) * 1000, 1000 + en)
    IN  IF x >= 0 THEN t ELSE -t

\* -ln(p/1000) in milli for 0 <= p <= 1000; np.log(p + 1e-10) at p = 0 is ln(1e-10)
RECURSIVE NegLnMilli(_)
NegLnMilli(p) ==
    IF p <= 0 THEN 23026
    ELSE IF p >= 1000 THEN 0
    ELSE IF p < 500 THEN 693 + NegLnMilli(2 * p)
    ELSE LET w  == RoundDiv((1000 - p) * 1000, 1000 + p)
             w3 == (w * w * w) \div 1000000
             w5 == (w3 * w * w) \div 1000000
         IN  2 * (w + w3 \div 3 + w5 \div 5)

\* np.random.choice(..., p = ws / sum(ws)) for the uniform draw u (milli):
\* the index of the first cumulative weight that exceeds u * total
RECURSIVE ChoiceFrom(_, _, _, _, _)
ChoiceFrom(ws, i, cum, total, u) ==
    IF i >= Len(ws) THEN Len(ws)
    ELSE IF (cum + ws[i]) * 1000 > u * total THEN i
    ELSE ChoiceFrom(ws, i + 1, cum + ws[i], total, u)

ChoiceIndex(ws, u) ==
    LET d  == SumSeq(ws) \div 1000000 + 1
        sw == [i \in 1..Len(ws) |-> ws[i] \div d]
    IN  ChoiceFrom(sw, 1, 0, SumSeq(sw), u)

(***************************************************************************)
(* SSD core: ssd/core.py, ssd/state.py                                     *)
(***************************************************************************)
\* ChickenPlayer.strategies, in the dict's insertion order
strategy_names == <<"low_risk", "medium_risk", "high_risk">>

StrategySet == {strategy_names[i] : i \in 1..Len(strategy_names)}

\* SSDCore.__init__ with its own default arguments
CoreDefaults ==
    [kappa_init |-> 300, kappa_min |-> 100, T_base |-> 800, T_min |-> 500,
     T_max |-> 5000, eta |-> 500, rho |-> 200, lambda_forget |-> 50,
     lambda_forget_other |-> 20, alpha |-> 300, beta_E |-> 100, c1 |-> 500,
     c2 |-> 300, jump_threshold |-> 2000, jump_base_rate |-> 100,
     jump_gamma |-> 500]

\* the SSDCore that ChickenPlayer.__init__ builds when the configuration file
\* gives none of the optional keys, for an agent created as in the tests
\* (kappa = 0.0, E_threshold = 5.0, T_base = 0.8)
PlayerDefaults ==
    [kappa_init |-> 0, kappa_min |-> 100, T_base |-> 800, T_min |-> 100,
     T_max |-> 5000, eta |-> 100, rho |-> 50, lambda_forget |-> 10,
     lambda_forget_other |-> 5, alpha |-> 100, beta_E |-> 50, c1 |-> 200,
     c2 |-> 100, jump_threshold |-> 5000, jump_base_rate |-> 100,
     jump_gamma |-> 1000]

\* a configuration with a sensitive agent: energy builds up in one or two
\* rounds, jumps fire and the temperature reaches T_max
SensitiveCore ==
    [kappa_init |-> 1000, kappa_min |-> 100, T_base |-> 1200, T_min |-> 500,
     T_max |-> 2000, eta |-> 500, rho |-> 200, lambda_forget |-> 50,
     lambda_forget_other |-> 20, alpha |-> 1500, beta_E |-> 100, c1 |-> 500,
     c2 |-> 300, jump_threshold |-> 1000, jump_base_rate |-> 300,
     jump_gamma |-> 500]

\* update_ssd's modifiers when personality_weights holds none of the keys
NeutralModifiers ==
    [learning_speed |-> 1000, pressure_sensitivity |-> 1000,
     temperature_sensitivity |-> 1000, jump_threshold_modifier |-> 1000]

SensitiveModifiers ==
    [learning_speed |-> 2000, pressure_sensitivity |-> 1500,
     temperature_sensitivity |-> 1500, jump_threshold_modifier |-> 800]

Agents ==
    { <<CoreDefaults, NeutralModifiers>>,
      <<PlayerDefaults, NeutralModifiers>>,
      <<SensitiveCore, SensitiveModifiers>> }

\* SSDCore.initialize_state, on the SSDState dataclass defaults
initialize_state(core) ==
    [kappa |-> [s \in StrategySet |-> core.kappa_init],
     E |-> 0,
     T |-> core.T_base,
     last_strategy |-> "None",
     jump_count |-> 0]

\* a reset that also clears the energy and the jump counter
reset_temperature_all(st) == [st EXCEPT !.E = 0, !.T = 800, !.jump_count = 0]

\* SSDState.reset_temperature
reset_temperature(st) == [st EXCEPT !.T = 800]

\* the factor choose_strategy applies to a class's inertia ('high' / 'medium' /
\* 'low' in its name), by pressure band
PressureFactor(s, meaning_pressure, th) ==
    IF meaning_pressure > th.high THEN
        (IF s = "high_risk" THEN 1800 ELSE IF s = "medium_risk" THEN 1300 ELSE 500)
    ELSE IF meaning_pressure > th.medium THEN
        (IF s = "high_risk" THEN 1300 ELSE IF s = "medium_risk" THEN 1200 ELSE 800)
    ELSE IF meaning_pressure < th.low THEN
        (IF s = "low_risk" THEN 2000 ELSE IF s = "medium_risk" THEN 800 ELSE 400)
    ELSE 1000

\* ChickenPlayer._choose_strategy's thresholds
pressure_thresholds == [high |-> 5000, medium |-> 3000, low |-> 1500]

\* SSDCore.choose_strategy: softmax over the pressure-adjusted inertia at
\* temperature T, sampled with the draw u
choose_strategy(core, st, meaning_pressure, th, u) ==
    LET kappa_adjusted == [s \in StrategySet |->
                              MulMilli(st.kappa[s], PressureFactor(s, meaning_pressure, th))]
        probabilities == [i \in 1..Len(strategy_names) |->
                              ExpMilli((kappa_adjusted[strategy_names[i]] * 1000) \div st.T)]
    IN  strategy_names[ChoiceIndex(probabilities, u)]

\* the chosen class's inertia without the floor at kappa_min
update_kappa_chosen_unfloored(core, kappa_current, W_align, learning_speed) ==
    kappa_current
      + MulMilli(MulMilli(core.eta, W_align), learning_speed)
      - MulMilli(core.lambda_forget, kappa_current - core.kappa_min)

\* update, STEP 2: the chosen class's inertia
update_kappa_chosen(core, kappa_current, W_align, learning_speed) ==
    LET dkappa == MulMilli(MulMilli(core.eta, W_align), learning_speed)
                  - MulMilli(core.lambda_forget, kappa_current - core.kappa_min)
    IN  Max(core.kappa_min, kappa_current + dkappa)

\* update, STEP 2: forgetting of a class that was not chosen
forget_other(core, k) ==
    Max(core.kappa_min, k - MulMilli(core.lambda_forget_other, k - core.kappa_min))

\* the unprocessed pressure fed by the signed gap and without the floor at 0
update_energy_signed(core, E, normalized_reward, kappa_current, pressure_sensitivity) ==
    E + MulMilli(MulMilli(core.alpha, normalized_reward - TanhMilli(kappa_current)),
                 pressure_sensitivity)
      - MulMilli(core.beta_E, E)

\* update, STEP 3: the unprocessed pressure E
update_energy(core, E, normalized_reward, kappa_current, pressure_sensitivity) ==
    LET expected_reward == TanhMilli(kappa_current)
        pressure_gap    == Abs(normalized_reward - expected_reward)
        dE == MulMilli(MulMilli(core.alpha, Max(pressure_gap, 0)), pressure_sensitivity)
              - MulMilli(core.beta_E, E)
    IN  Max(0, E + dE)

\* Shannon entropy of the inertia map renormalised to a distribution, over ln(3)
normalized_entropy(kappa) ==
    LET total   == SumSeq([i \in 1..Len(strategy_names) |-> kappa[strategy_names[i]]])
        prob(s) == (kappa[s] * 1000) \div total
        entropy == SumSeq([i \in 1..Len(strategy_names) |->
                       MulMilli(prob(strategy_names[i]), NegLnMilli(prob(strategy_names[i])))])
        max_entropy == 1099
    IN  (entropy * 1000) \div max_entropy

\* SSDCore._update_temperature
_update_temperature(core, st, modifiers) ==
    LET c1  == MulMilli(core.c1, modifiers.temperature_sensitivity)
        raw == core.T_base + MulMilli(c1, st.E)
               + MulMilli(core.c2, 1000 - normalized_entropy(st.kappa))
    IN  [st EXCEPT !.T = Max(core.T_min, Min(core.T_max, raw))]

\* the jump probability 1 - exp(-h) of _check_jump (milli), for E > Theta
jump_prob(core, E, Theta, kappa_mean) ==
    LET excess == Min(6000, ((E - Theta) * 1000) \div core.jump_gamma)
        kappa_suppression == ExpNegMilli(2 * kappa_mean)
        h0 == MulMilli(core.jump_base_rate, kappa_suppression)
        h  == Min(13000, (h0 * (ExpMilli(excess) \div 10)) \div 100)
    IN  1000 - ExpNegMilli(h)

\* _check_jump heating the temperature by half without the cap at T_max
_check_jump_uncapped(core, st, modifiers, u) ==
    LET kappa_mean == SumSeq([i \in 1..Len(strategy_names) |-> st.kappa[strategy_names[i]]])
                      \div Len(strategy_names)
        Theta == MulMilli(core.jump_threshold, modifiers.jump_threshold_modifier)
                 + MulMilli(500, kappa_mean)
    IN  IF st.E > Theta /\ u < jump_prob(core, st.E, Theta, kappa_mean)
        THEN <<[st EXCEPT !.E = 0, !.T = MulMilli(st.T, 1500)], TRUE>>
        ELSE <<st, FALSE>>

\* SSDCore._check_jump with the draw u of np.random.random(): <<state, jumped>>
_check_jump(core, st, modifiers, u) ==
    LET kappa_mean == SumSeq([i \in 1..Len(strategy_names) |-> st.kappa[strategy_names[i]]])
                      \div Len(strategy_names)
        Theta == MulMilli(core.jump_threshold, modifiers.jump_threshold_modifier)
                 + MulMilli(500, kappa_mean)
    IN  IF st.E > Theta /\ u < jump_prob(core, st.E, Theta, kappa_mean)
        THEN <<[st EXCEPT !.E = 0, !.T = Min(core.T_max, MulMilli(st.T, 1500))], TRUE>>
        ELSE <<st, FALSE>>

\* update that does not count the jump
update_uncounted(core, st, reward, modifiers, u) ==
    LET normalized_reward == TanhMilli(reward * 20)
        W_align == normalized_reward
                   - MulMilli(core.rho, MulMilli(normalized_reward, normalized_reward))
        kappa_current == st.kappa[st.last_strategy]
        kappa_new == [s \in StrategySet |->
                         IF s = st.last_strategy
                         THEN update_kappa_chosen(core, kappa_current, W_align,
                                                  modifiers.learning_speed)
                         ELSE forget_other(core, st.kappa[s])]
        E_new == update_energy(core, st.E, normalized_reward, kappa_current,
                               modifiers.pressure_sensitivity)
        st3 == [st EXCEPT !.kappa = kappa_new, !.E = E_new]
    IN  _check_jump(core, _update_temperature(core, st3, modifiers), modifiers, u)

\* SSDCore.update past its early return: <<state, jumped>>
update(core, st, reward, modifiers, u) ==
    LET normalized_reward == TanhMilli(reward * 20)
        W_align == normalized_reward
                   - MulMilli(core.rho, MulMilli(normalized_reward, normalized_reward))
        kappa_current == st.kappa[st.last_strategy]
        kappa_new == [s \in StrategySet |->
                         IF s = st.last_strategy
                         THEN update_kappa_chosen(core, kappa_current, W_align,
                                                  modifiers.learning_speed)
                         ELSE forget_other(core, st.kappa[s])]
        E_new == update_energy(core, st.E, normalized_reward, kappa_current,
                               modifiers.pressure_sensitivity)
        st3 == [st EXCEPT !.kappa = kappa_new, !.E = E_new]
        st4 == _update_temperature(core, st3, modifiers)
        res == _check_jump(core, st4, modifiers, u)
    IN  IF res[2]
        THEN <<[res[1] EXCEPT !.jump_count = @ + 1], TRUE>>
        ELSE res

(***************************************************************************)
(* SpecSSD: one agent's learning state under any sequence of strategy      *)
(* selections, learning updates and temperature resets                     *)
(***************************************************************************)
MaxUpdates == 3

\* score changes handed to update(): an extreme loss, a loss, nothing, a win
Rewards == {-1000000, -10, 0, 40}

\* meaning pressures handed to choose_strategy: low band, high band
Pressures == {500, 6000}

\* uniform draws in [0, 1)
Draws == {0, 500, 999}

InitSSD ==
    /\ \E a \in Agents :
          /\ ssd_core = a[1]
          /\ learning_modifiers = a[2]
          /\ ssd_state = initialize_state(a[1])
    /\ jumped = FALSE
    /\ last_call = "initialize_state"
    /\ n_updates = 0
    /\ ChoiceIdle
    /\ PressureIdle
    /\ GameIdle

\* ChickenPlayer._choose_strategy
ChooseStrategy ==
    /\ last_call # "choose_strategy"
    /\ n_updates < MaxUpdates
    /\ \E p \in Pressures, u \in Draws :
          ssd_state' = [ssd_state EXCEPT !.last_strategy =
                           choose_strategy(ssd_core, ssd_state, p, pressure_thresholds, u)]
    /\ last_call' = "choose_strategy"
    /\ UNCHANGED <<ssd_core, learning_modifiers, jumped, n_updates, outside_ssd>>

\* SSDCore.update
Update ==
    /\ n_updates < MaxUpdates
    /\ n_updates' = n_updates + 1
    /\ IF ssd_state.last_strategy = "None"
       THEN /\ last_call' = "update_noop"
            /\ UNCHANGED <<ssd_state, jumped>>
       ELSE /\ last_call' = "update"
            /\ \E reward \in Rewards, u \in Draws :
                  LET res == update(ssd_core, ssd_state, reward, learning_modifiers, u)
                  IN  /\ ssd_state' = res[1]
                      /\ jumped' = res[2]
    /\ UNCHANGED <<ssd_core, learning_modifiers, outside_ssd>>

\* SSDState.reset_temperature (ChickenPlayer.reset_set_score, at a set boundary)
ResetTemperature ==
    /\ last_call \in {"update", "update_noop"}
    /\ ssd_state' = reset_temperature(ssd_state)
    /\ last_call' = "reset_temperature"
    /\ UNCHANGED <<ssd_core, learning_modifiers, jumped, n_updates, outside_ssd>>

NextSSD == ChooseStrategy \/ Update \/ ResetTemperature

SpecSSD == InitSSD /\ [][NextSSD]_vars

\* C1: after an update made with a recorded last_strategy, every strategy
\* class's inertia is at least kappa_min, whatever the reward, the modifiers
\* and the state before the update were.
C1_InertiaFloor ==
    last_call = "update" =>
        \A s \in StrategySet : ssd_state.kappa[s] >= ssd_core.kappa_min

\* the floor has acted: an agent initialised below kappa_min, or one whose
\* extreme loss would have pushed the chosen class below it, was updated
C1_Witness ==
    /\ last_call = "update"
    /\ n_updates >= 2
    /\ \E s \in StrategySet : ssd_state.kappa[s] = ssd_core.kappa_min
    /\ ssd_core.kappa_init > ssd_core.kappa_min

\* C2: after an update, with or without a jump, the exploration temperature
\* lies in [T_min, T_max].
C2_TemperatureBounds ==
    last_call = "update" =>
        /\ ssd_core.T_min <= ssd_state.T
        /\ ssd_state.T <= ssd_core.T_max

\* a jump fired and the heated temperature was cut back to T_max
C2_Witness ==
    /\ last_call = "update"
    /\ jumped
    /\ ssd_state.T = ssd_core.T_max
    /\ ssd_state.jump_count >= 1

\* C3: the unprocessed pressure E is never negative, at initialisation and
\* after every update.
C3_EnergyNonNegative == ssd_state.E >= 0

\* energy has been built up by updates and is being carried between rounds
C3_Witness ==
    /\ last_call = "update"
    /\ n_updates >= 2
    /\ ssd_state.E > 0
    /\ ~jumped

\* C4: an update in which the jump fires leaves E = 0 and raises jump_count
\* by exactly one; an update without a jump leaves jump_count unchanged.
C4_JumpAccounting ==
    [][ (n_updates' = n_updates + 1 /\ last_call' = "update") =>
           /\ jumped' => /\ ssd_state'.E = 0
                          /\ ssd_state'.jump_count = ssd_state.jump_count + 1
           /\ ~jumped' => ssd_state'.jump_count = ssd_state.jump_count ]_vars

\* a second jump was counted, after an update without a jump in between
C4_Witness ==
    /\ last_call = "update"
    /\ jumped
    /\ ssd_state.E = 0
    /\ ssd_state.jump_count = 2
    /\ n_updates = 3

(***************************************************************************)
(* Choice distribution: strategy/ssd_strategy.py                           *)
(*                                                                         *)
(* A distribution is kept exactly, as ten numerators over a denominator.   *)
(***************************************************************************)
\* the ten actions
Actions == 1..10

\* an ultra-safe table whose entries do not add up
ultra_safe_probs_short == [num |-> <<60, 30, 8, 1, 0, 0, 0, 0, 0, 0>>, den |-> 100]

\* the hand-tuned distribution of the ultra-low-pressure mode, in hundredths
ultra_safe_probs == [num |-> <<60, 30, 8, 2, 0, 0, 0, 0, 0, 0>>, den |-> 100]

\* SSDStrategy._calculate_hp_aware_nash_strategy: [0.1] * 10
_calculate_hp_aware_nash_strategy(meaning_pressure) ==
    [num |-> [i \in Actions |-> 1], den |-> 10]

\* SSDStrategy._calibrate_bands: an empty body, both bands stay as constructed
_calibrate_bands(strat) == strat

\* SSDStrategy._apply_band_strategy
_apply_band_strategy(strat, choice_scores, meaning_pressure) ==
    IF ~strat.band_aware THEN choice_scores
    ELSE IF meaning_pressure > 5000 THEN
        [i \in Actions |->
            IF i \in strat._push_set THEN MulMilli(choice_scores[i], 1800)
            ELSE IF i \in strat._safe_set THEN MulMilli(choice_scores[i], 800)
            ELSE choice_scores[i]]
    ELSE IF meaning_pressure < 1500 THEN
        [i \in Actions |->
            IF i \in strat._safe_set THEN MulMilli(choice_scores[i], 1600)
            ELSE IF i \in strat._push_set THEN MulMilli(choice_scores[i], 800)
            ELSE choice_scores[i]]
    ELSE
        [i \in Actions |->
            IF i \in (strat._safe_set \cup strat._push_set)
            THEN MulMilli(choice_scores[i], 1300)
            ELSE choice_scores[i]]

\* SSDStrategy._apply_history_learning: +0.5 for every past success, the two
\* histories read from their ends over the shorter one's length
_apply_history_learning(state, choice_scores) ==
    LET nc == Len(state.choice_history)
        ns == Len(state.success_history)
        history_len == Min(nc, ns)
        hits(c) == Cardinality({i \in 0..(history_len - 1) :
                                   /\ state.choice_history[nc - i] = c
                                   /\ state.success_history[ns - i]})
    IN  [c \in Actions |-> choice_scores[c] + 500 * hits(c)]

\* SSDStrategy._apply_personality_weights
_apply_personality_weights(strat, choice_scores) ==
    [i \in Actions |->
        MulMilli(choice_scores[i],
                 IF i <= 4 THEN strat.personality_weights.low_risk
                 ELSE IF i <= 7 THEN strat.personality_weights.medium_risk
                 ELSE strat.personality_weights.high_risk)]

\* the factors with the desperate branch taken above 5.0 only
hp_fear_factor_above(i, hp, max_hp, meaning_pressure) ==
    IF hp * 5 <= max_hp THEN
        IF meaning_pressure > 5000
        THEN (IF i = 1 THEN 10000 ELSE IF i <= 5 THEN 5000
              ELSE IF i <= 8 THEN 2000 ELSE 500)
        ELSE (IF i = 1 THEN 100000 ELSE IF i <= 3 THEN 3000
              ELSE IF i <= 5 THEN 1200 ELSE IF i <= 7 THEN 300 ELSE 10)
    ELSE IF hp * 5 <= 2 * max_hp THEN
        LET fear_factor == (1000 - (hp * 1000) \div max_hp) * 5
        IN  IF i <= 5 THEN 1000 + MulMilli(fear_factor, 800)
            ELSE IF i <= 7 THEN 1000 + MulMilli(fear_factor, 300)
            ELSE Max(100, 1000 - MulMilli(fear_factor, 500))
    ELSE IF hp * 5 <= 3 * max_hp THEN
        (IF i <= 7 THEN 1500 ELSE IF i >= 9 THEN 700 ELSE 1000)
    ELSE 1000

\* the factor _apply_hp_fear_adjustment multiplies action i's score with
hp_fear_factor(i, hp, max_hp, meaning_pressure) ==
    IF hp * 5 <= max_hp THEN
        IF meaning_pressure >= 5000
        THEN (IF i = 1 THEN 10000 ELSE IF i <= 5 THEN 5000
              ELSE IF i <= 8 THEN 2000 ELSE 500)
        ELSE (IF i = 1 THEN 100000 ELSE IF i <= 3 THEN 3000
              ELSE IF i <= 5 THEN 1200 ELSE IF i <= 7 THEN 300 ELSE 10)
    ELSE IF hp * 5 <= 2 * max_hp THEN
        LET fear_factor == (1000 - (hp * 1000) \div max_hp) * 5
        IN  IF i <= 5 THEN 1000 + MulMilli(fear_factor, 800)
            ELSE IF i <= 7 THEN 1000 + MulMilli(fear_factor, 300)
            ELSE Max(100, 1000 - MulMilli(fear_factor, 500))
    ELSE IF hp * 5 <= 3 * max_hp THEN
        (IF i <= 7 THEN 1500 ELSE IF i >= 9 THEN 700 ELSE 1000)
    ELSE 1000

\* SSDStrategy._apply_hp_fear_adjustment
_apply_hp_fear_adjustment(strat, state, choice_scores, meaning_pressure) ==
    [i \in Actions |->
        MulMilli(choice_scores[i],
                 hp_fear_factor(i, state.hp, strat.max_hp, meaning_pressure))]

\* the ultra-safe mode entered below 0.05 only
_calculate_choice_probabilities_late(strat, state, T, meaning_pressure) ==
    IF strat.nash_equilibrium_enabled
    THEN _calculate_hp_aware_nash_strategy(meaning_pressure)
    ELSE IF meaning_pressure < 50 THEN ultra_safe_probs
    ELSE
        LET T_adjusted == MulMilli(T, 1000 + MulMilli(meaning_pressure, 300))
            s2 == _apply_history_learning(state,
                      _apply_band_strategy(strat, [i \in Actions |-> 1000], meaning_pressure))
            s4 == _apply_hp_fear_adjustment(strat, state,
                      _apply_personality_weights(strat, s2), meaning_pressure)
            exp_scores == [i \in Actions |-> ExpMilli((s4[i] * 1000) \div T_adjusted)]
        IN  [num |-> exp_scores, den |-> SumSeq(exp_scores)]

\* SSDStrategy._calculate_choice_probabilities
_calculate_choice_probabilities(strat, state, T, meaning_pressure) ==
    IF strat.nash_equilibrium_enabled
    THEN _calculate_hp_aware_nash_strategy(meaning_pressure)
    ELSE IF meaning_pressure < 100 THEN ultra_safe_probs
    ELSE
        LET strat1 == IF strat.band_aware THEN _calibrate_bands(strat) ELSE strat
            T_adjusted == MulMilli(T, 1000 + MulMilli(meaning_pressure, 300))
            s0 == [i \in Actions |-> 1000]
            s1 == _apply_band_strategy(strat1, s0, meaning_pressure)
            s2 == _apply_history_learning(state, s1)
            s3 == _apply_personality_weights(strat1, s2)
            s4 == _apply_hp_fear_adjustment(strat1, state, s3, meaning_pressure)
            exp_scores == [i \in Actions |-> ExpMilli((s4[i] * 1000) \div T_adjusted)]
        IN  [num |-> exp_scores, den |-> SumSeq(exp_scores)]

\* SSDStrategy.make_choice
SSDStrategy_make_choice(strat, state, ssd_st, meaning_pressure) ==
    _calculate_choice_probabilities(strat, state, ssd_st.T, meaning_pressure)

\* np.random.choice(range(1, 11), p=choice_probabilities) with the draw u
draw_choice(probs, u) == ChoiceIndex(probs.num, u)

(***************************************************************************)
(* SpecChoice: an SSDStrategy instance asked for distributions             *)
(***************************************************************************)
\* personality_weights of the test players, and a low-risk-heavy personality
PersonalityWeights ==
    { [low_risk |-> 300, medium_risk |-> 400, high_risk |-> 300],
      [low_risk |-> 1000, medium_risk |-> 500, high_risk |-> 200] }

\* config['game_rules']['max_hp']: the HP = 1 / 2 / 3 bands of the comments
\* are those of max_hp = 5
MaxHps == {5, 10}

\* PlayerState histories: empty, aligned, and one choice ahead of its result
Histories ==
    { [choice_history |-> <<>>, success_history |-> <<>>],
      [choice_history |-> <<1, 9>>, success_history |-> <<TRUE, FALSE>>],
      [choice_history |-> <<3, 3, 8>>, success_history |-> <<TRUE, TRUE>>] }

\* temperatures between T_min and T_max
Temperatures == {100, 800, 5000}

\* pressures around the 0.1 threshold and in the low, middle and high bands
ChoicePressures == {0, 50, 99, 100, 1000, 3000, 5000, 8000}

InitChoice ==
    /\ \E nash \in BOOLEAN, band \in BOOLEAN, w \in PersonalityWeights, mh \in MaxHps :
          ssd_strategy = [nash_equilibrium_enabled |-> nash, band_aware |-> band,
                          personality_weights |-> w, max_hp |-> mh,
                          _safe_set |-> {}, _push_set |-> {}]
    /\ \E hp \in 1..ssd_strategy.max_hp, h \in Histories, T \in Temperatures,
          p \in ChoicePressures :
          choice_args = [state |-> [hp |-> hp, choice_history |-> h.choice_history,
                                    success_history |-> h.success_history],
                         ssd_state |-> [T |-> T],
                         meaning_pressure |-> p]
    /\ choice_probabilities = no_distribution
    /\ choice = 0
    /\ SSDIdle
    /\ PressureIdle
    /\ GameIdle

\* the call of SSDStrategy.make_choice and the draw from what it returned
MakeChoice ==
    /\ choice = 0
    /\ \E u \in Draws :
          LET probs == SSDStrategy_make_choice(ssd_strategy, choice_args.state,
                                               choice_args.ssd_state,
                                               choice_args.meaning_pressure)
          IN  /\ choice_probabilities' = probs
              /\ choice' = draw_choice(probs, u)
    /\ UNCHANGED <<ssd_strategy, choice_args, outside_choice>>

NextChoice == MakeChoice

SpecChoice == InitChoice /\ [][NextChoice]_vars

\* the code path a call took
NashPath == ssd_strategy.nash_equilibrium_enabled

UltraSafePath == ~NashPath /\ choice_args.meaning_pressure < 100

SoftmaxPath == ~NashPath /\ choice_args.meaning_pressure >= 100

\* distribution p is the table q, entry by entry: p.num[i] / p.den equals
\* q.num[i] / q.den (q's denominator is small, the products stay in range)
SameDistribution(p, q) ==
    /\ Len(p.num) = Len(q.num)
    /\ \A i \in 1..Len(p.num) :
          /\ (q.num[i] * (p.den % q.den)) % q.den = 0
          /\ p.num[i] = q.num[i] * (p.den \div q.den)
                         + (q.num[i] * (p.den % q.den)) \div q.den

C6_UltraSafe ==
    choice # 0 =>
        /\ (choice_args.meaning_pressure < 100 /\ ~ssd_strategy.nash_equilibrium_enabled)
              => SameDistribution(choice_probabilities,
                                  [num |-> <<60, 30, 8, 2, 0, 0, 0, 0, 0, 0>>, den |-> 100])
        /\ ssd_strategy.nash_equilibrium_enabled
              => SameDistribution(choice_probabilities,
                                  [num |-> <<1, 1, 1, 1, 1, 1, 1, 1, 1, 1>>, den |-> 10])

\* C6 as stated: a pressure below 0.1 returns the ultra-safe distribution
\* whatever the other inputs, the Nash-equilibrium flag included.
C6_Original ==
    (choice # 0 /\ choice_args.meaning_pressure < 100) =>
        SameDistribution(choice_probabilities,
                         [num |-> <<60, 30, 8, 2, 0, 0, 0, 0, 0, 0>>, den |-> 100])

\* the ultra-safe mode answered a band-aware agent at 1 HP with a hot
\* temperature and a history of successes
C6_Witness ==
    /\ choice # 0
    /\ choice_args.meaning_pressure = 99
    /\ ~ssd_strategy.nash_equilibrium_enabled
    /\ ssd_strategy.band_aware
    /\ choice_args.state.hp = 1
    /\ choice_args.ssd_state.T = 5000
    /\ choice_args.state.success_history # <<>>
    /\ choice = 4

(***************************************************************************)
(* Meaning pressure: core/player.py, ChickenPlayer._calculate_meaning_pressure *)
(***************************************************************************)
\* dict.get(key, default)
DictGet(d, k, default) == IF k \in DOMAIN d THEN d[k] ELSE default

\* the largest r in lo..hi with r * r <= n
RECURSIVE ISqrtBetween(_, _, _)
ISqrtBetween(n, lo, hi) ==
    IF lo >= hi THEN lo
    ELSE LET mid == (lo + hi + 1) \div 2
         IN  IF mid * mid <= n THEN ISqrtBetween(n, mid, hi)
             ELSE ISqrtBetween(n, lo, mid - 1)

\* (total_score / 100.0) ** 0.5 in milli
SqrtHundredthMilli(total_score) == ISqrtBetween(total_score * 10000, 0, 40000)

\* the environment types of the game, and one it does not know
EnvTypes == {"safe", "normal", "mild", "moderate", "volatile", "deadly", "other"}

\* the future-set bonus multiplier the overall reversal signal uses
future_bonus_multiplier(env_type) ==
    CASE env_type = "safe" -> 750
      [] env_type = "normal" -> 900
      [] env_type = "mild" -> 1100
      [] env_type = "moderate" -> 1300
      [] env_type = "volatile" -> 1200
      [] env_type = "deadly" -> 1800
      [] OTHER -> 1000

\* the future-set bonus multiplier the elimination-line signal uses
elimination_bonus_multiplier(env_type) ==
    CASE env_type = "deadly" -> 1800
      [] env_type = "moderate" -> 1300
      [] env_type = "mild" -> 1100
      [] OTHER -> 1000

reversal_multipliers == [e \in EnvTypes |-> future_bonus_multiplier(e)]

elimination_multipliers == [e \in EnvTypes |-> elimination_bonus_multiplier(e)]

\* sum(multipliers) / len(multipliers) over the sets after current_set, 1.0
\* when there is none
avg_future_multiplier(mult, environments, current_set, total_sets) ==
    LET n  == total_sets - current_set
        ms == [i \in 1..n |-> mult[DictGet(environments, current_set + i, "normal")]]
    IN  IF n <= 0 THEN 1000 ELSE SumSeq(ms) \div n

\* lines 131-142: the most an agent can still gain in this set's rounds
max_possible_gain_in_set(config, state, a) ==
    LET risk_bonus_multiplier == IF state.hp = 1 THEN 1300 ELSE 1000
    IN  IntOfMilli(config.max_points_per_round * a.remaining_rounds * risk_bonus_multiplier)

\* lines 145-154
set_reversal_impossibility(config, state, a) ==
    LET gain == max_possible_gain_in_set(config, state, a)
        max_set_bonus == IntOfMilli(DictGet(config.set_rank_bonus, 1, 30)
                                    * a.env_bonus_multiplier)
        gap == a.score_gap_from_first
    IN  IF a.current_rank > 1 /\ gap > 0
        THEN IF gap > gain + max_set_bonus THEN 2000
             ELSE IF gap > gain THEN 1500
             ELSE IF 2 * gap > gain THEN 1000
             ELSE 500
        ELSE 0

\* lines 195-199: the most an agent can still gain in the tournament, as the
\* overall reversal signal estimates it
reversal_max_possible_gain_overall(config, state, a) ==
    LET base_max_set_bonus == DictGet(config.set_rank_bonus, 1, 30)
        max_set_bonus == IntOfMilli(base_max_set_bonus * a.env_bonus_multiplier)
        future_max_set_bonus ==
            IF config.env_enabled
            THEN IntOfMilli(base_max_set_bonus
                            * avg_future_multiplier(reversal_multipliers,
                                  config.environments, a.current_set, a.total_sets))
            ELSE base_max_set_bonus
        max_per_set == config.max_points_per_round * a.total_rounds + future_max_set_bonus
    IN  max_per_set * (a.total_sets - a.current_set)
        + max_possible_gain_in_set(config, state, a) + max_set_bonus

\* lines 157-208
overall_reversal_impossibility(config, state, a) ==
    LET g == reversal_max_possible_gain_overall(config, state, a)
    IN  IF a.total_sets > 1 /\ a.overall_rank > 1 /\ a.overall_gap > 0
        THEN IF a.overall_gap > g THEN 2000
             ELSE IF 10 * a.overall_gap > 8 * g THEN 1500
             ELSE IF 2 * a.overall_gap > g THEN 1000
             ELSE 500
        ELSE 0

\* lines 212-217
reversal_impossibility(config, state, a) ==
    IF a.total_sets > 1 /\ a.overall_rank <= 2
    THEN MulMilli(set_reversal_impossibility(config, state, a), 500)
    ELSE Max(set_reversal_impossibility(config, state, a),
             overall_reversal_impossibility(config, state, a))

\* line 255: one average remaining set's maximum yield
avg_max_per_set(config, a) ==
    LET avg_multiplier ==
            IF config.env_enabled
            THEN avg_future_multiplier(elimination_multipliers,
                     config.environments, a.current_set, a.total_sets)
            ELSE 1000
    IN  config.max_points_per_round * a.total_rounds
        + IntOfMilli(DictGet(config.set_rank_bonus, 1, 30) * avg_multiplier)

\* line 258: the most an agent can still gain in the tournament, as the
\* elimination-line signal estimates it
elimination_max_possible_gain_overall(config, state, a) ==
    avg_max_per_set(config, a) * (a.total_sets - a.current_set)
    + max_possible_gain_in_set(config, state, a)
    + IntOfMilli(DictGet(config.set_rank_bonus, 1, 30) * a.env_bonus_multiplier)

\* lines 228-280
elimination_line_pressure(config, state, a) ==
    LET margin_to_elimination ==
            elimination_max_possible_gain_overall(config, state, a) - a.overall_gap
        per_set == avg_max_per_set(config, a)
    IN  IF a.total_sets > 1 /\ a.overall_rank > 1 /\ a.overall_gap > 0
        THEN IF margin_to_elimination <= 0 THEN 5000
             ELSE IF 10 * margin_to_elimination < 3 * per_set THEN 3000
             ELSE IF 10 * margin_to_elimination < 7 * per_set THEN 2000
             ELSE IF 10 * margin_to_elimination < 12 * per_set THEN 1000
             ELSE 0
        ELSE 0

\* the three superposed fears: crash death, defeat death, attachment to the
\* money won (player.py lines 295-378, multi_conflict_pressure.py lines 35-104)
three_fears(hp, mhp, current_rank, score_gap_from_first, alive_count, total_score, reversal_imp) ==
    LET hp_ratio    == (hp * 1000) \div mhp
        is_winning  == current_rank <= 2
        is_losing   == current_rank >= 5
        large_gap      == alive_count > 1 /\ score_gap_from_first > 20
        very_large_gap == alive_count > 1 /\ score_gap_from_first > 50
        crash_death_fear == MulMilli(MulMilli(1000 - hp_ratio, 1000 - hp_ratio), 2000)
        defeat_death_fear ==
            IF is_losing \/ large_gap
            THEN (IF very_large_gap THEN 2000 ELSE 1200) + reversal_imp
            ELSE IF is_winning /\ ~large_gap THEN 300
            ELSE 800
        money_attachment ==
            IF total_score > 0 THEN SqrtHundredthMilli(total_score) ELSE 0
    IN  IF is_winning /\ ~large_gap
        THEN MulMilli(MulMilli(crash_death_fear, 1500) + MulMilli(defeat_death_fear, 200)
                      + MulMilli(money_attachment, 300), 700)
        ELSE IF is_losing \/ very_large_gap
        THEN MulMilli(MulMilli(crash_death_fear, 400) + MulMilli(defeat_death_fear, 1500)
                      + MulMilli(money_attachment, 150), 1100)
        ELSE IF large_gap /\ ~is_losing
        THEN MulMilli(MulMilli(crash_death_fear, 800) + MulMilli(defeat_death_fear, 1800)
                      + MulMilli(money_attachment, 400), 1200)
        ELSE crash_death_fear + defeat_death_fear + MulMilli(money_attachment, 300)

\* lines 295-380 of ChickenPlayer._calculate_meaning_pressure
total_death_pressure(config, state, a) ==
    three_fears(state.hp, config.max_hp, a.current_rank, a.score_gap_from_first,
                a.alive_count, state.total_score, reversal_impossibility(config, state, a))

\* lines 384-410: with three or fewer agents alive the pressure so far is
\* scaled and an endgame term is added
endgame_adjusted(config, state, a, pressure) ==
    LET base_endgame_multiplier == (4 - a.alive_count) * 300
        is_winning == a.current_rank <= 2
        is_losing  == a.current_rank >= 5
        healthy    == state.hp * 5 > 2 * config.max_hp
    IN  IF a.alive_count > 3 THEN pressure
        ELSE IF is_winning /\ healthy
        THEN MulMilli(pressure, 900) + MulMilli(base_endgame_multiplier, 1200)
        ELSE IF is_losing \/ ~healthy
        THEN MulMilli(pressure, 1150) + MulMilli(base_endgame_multiplier, 2000)
        ELSE pressure + MulMilli(base_endgame_multiplier, 2500)

\* lines 118-436: the pressure before the final-round rule
pre_final_pressure(config, state, a) ==
    LET round_progress == (a.round_num * 1000) \div a.total_rounds
        p0 == config.base_weight + MulMilli(config.round_progression_weight, round_progress)
        p1 == p0 + total_death_pressure(config, state, a)
        p2 == endgame_adjusted(config, state, a, p1)
        p3 == IF state.total_score < 0 THEN p2 + Abs(state.total_score) * 40 ELSE p2
        p4 == p3 + elimination_line_pressure(config, state, a)
    IN  IF a.current_rank > 1
        THEN p4 + MulMilli(config.score_gap_weight * (a.current_rank - 1), 500)
                + Min(Abs(a.score_gap_from_first) * 50, 5000)
        ELSE p4

\* lines 565-569 and 633-638: finality_weight, and for rank > 1 the
\* desperation terms
finality_rule(config, a, branch) ==
    [branch |-> branch,
     factor |-> config.finality_weight,
     addend |-> IF a.current_rank > 1
                THEN config.desperation_bonus * (a.current_rank - 1)
                     + a.score_gap_from_first * 50
                ELSE 0]

damping_rule(branch, factor) == [branch |-> branch, factor |-> factor, addend |-> 0]

\* the rule with the safe total compared to the leader's present score
final_set_trailing_rule_present(config, state, a) ==
    LET env == a.env_bonus_multiplier
        current_set_bonus ==
            IntOfMilli(DictGet(config.set_rank_bonus, a.current_rank, 0) * env)
        predicted_total_if_safe == state.total_score + current_set_bonus
        estimated_overall_first_score == state.total_score + a.overall_gap
        points_needed_for_overall_win == a.overall_gap + 1
        best_set_bonus == IntOfMilli(DictGet(config.set_rank_bonus, 1, 0) * env)
        max_possible_gain == 10 * env + 1000 * best_set_bonus
        expected_safe_gain ==
            IF a.current_rank = 1 THEN 1000 * (current_set_bonus - 2)
            ELSE 3 * env + 1000 * current_set_bonus
    IN  IF predicted_total_if_safe > estimated_overall_first_score
        THEN damping_rule("safe_secures_win", IF a.current_rank = 1 THEN 20 ELSE 100)
        ELSE IF 1000 * points_needed_for_overall_win > max_possible_gain
        THEN damping_rule("reversal_impossible", IF a.current_rank = 1 THEN 10 ELSE 700)
        ELSE IF expected_safe_gain >= 1000 * points_needed_for_overall_win
        THEN damping_rule("safe_reversal", IF a.current_rank = 1 THEN 50 ELSE 300)
        ELSE finality_rule(config, a, "risk_needed")

\* lines 445-571: final set, final round, the agent trails overall
final_set_trailing_rule(config, state, a) ==
    LET env == a.env_bonus_multiplier
        current_set_bonus ==
            IntOfMilli(DictGet(config.set_rank_bonus, a.current_rank, 0) * env)
        predicted_total_if_safe == state.total_score + current_set_bonus
        estimated_overall_first_score == state.total_score + a.overall_gap
        points_needed_for_overall_win == a.overall_gap + 1
        best_set_bonus == IntOfMilli(DictGet(config.set_rank_bonus, 1, 0) * env)
        max_possible_gain == 10 * env + 1000 * best_set_bonus
        estimated_max_first_score == 1000 * estimated_overall_first_score + max_possible_gain
        expected_safe_gain ==
            IF a.current_rank = 1 THEN 1000 * (current_set_bonus - 2)
            ELSE 3 * env + 1000 * current_set_bonus
    IN  IF 1000 * predicted_total_if_safe > estimated_max_first_score
        THEN damping_rule("safe_secures_win", IF a.current_rank = 1 THEN 20 ELSE 100)
        ELSE IF 1000 * points_needed_for_overall_win > max_possible_gain
        THEN damping_rule("reversal_impossible", IF a.current_rank = 1 THEN 10 ELSE 700)
        ELSE IF expected_safe_gain >= 1000 * points_needed_for_overall_win
        THEN damping_rule("safe_reversal", IF a.current_rank = 1 THEN 50 ELSE 300)
        ELSE finality_rule(config, a, "risk_needed")

\* line 600: the HP with which an agent survives a crash in every remaining round
safe_hp_threshold(config, a) ==
    ((a.total_rounds - a.round_num + 1) + (a.total_sets - a.current_set) * a.total_rounds)
        * config.crash_hp_loss + 1

\* the overall leader's rule with the roles of the HP buffer exchanged
final_set_leading_rule_swapped(config, state, a) ==
    LET lead_over_second == IF a.overall_gap < 0 THEN Abs(a.overall_gap) ELSE 0
        max_possible_gain ==
            10 * a.env_bonus_multiplier
            + 1000 * IntOfMilli(DictGet(config.set_rank_bonus, 1, 0) * a.env_bonus_multiplier)
        is_guaranteed_win == 1000 * lead_over_second > max_possible_gain
    IN  IF is_guaranteed_win /\ state.hp < safe_hp_threshold(config, a)
        THEN damping_rule("money_mode", 1500)
        ELSE damping_rule("guaranteed", IF a.current_rank = 1 THEN 50 ELSE 300)

\* lines 572-630: final set, final round, the agent does not trail overall
final_set_leading_rule(config, state, a) ==
    LET lead_over_second == IF a.overall_gap < 0 THEN Abs(a.overall_gap) ELSE 0
        best_set_bonus == IntOfMilli(DictGet(config.set_rank_bonus, 1, 0)
                                     * a.env_bonus_multiplier)
        max_possible_gain == 10 * a.env_bonus_multiplier + 1000 * best_set_bonus
        is_guaranteed_win == 1000 * lead_over_second > max_possible_gain
        has_hp_buffer == state.hp >= safe_hp_threshold(config, a)
    IN  IF is_guaranteed_win /\ has_hp_buffer
        THEN damping_rule("money_mode", 1500)
        ELSE IF is_guaranteed_win
        THEN damping_rule("guaranteed_low_hp", IF a.current_rank = 1 THEN 50 ELSE 300)
        ELSE damping_rule("lead_contested", IF a.current_rank = 1 THEN 50 ELSE 300)

\* lines 439-638: what the final round does to the pressure
final_round_rule(config, state, a) ==
    IF a.current_set = a.total_sets
    THEN IF a.overall_gap > 0
         THEN final_set_trailing_rule(config, state, a)
         ELSE final_set_leading_rule(config, state, a)
    ELSE finality_rule(config, a, "not_final_set")

\* ChickenPlayer._calculate_meaning_pressure
_calculate_meaning_pressure(config, state, a) ==
    LET pressure == pre_final_pressure(config, state, a)
        rule     == final_round_rule(config, state, a)
    IN  IF a.is_final_round
        THEN MulMilli(pressure, rule.factor) + rule.addend
        ELSE pressure

\* lines 220-221: the flags the pressure computation leaves on the PlayerState
reversal_flags(config, state, a) ==
    [eliminated_reversal_possible |->
         set_reversal_impossibility(config, state, a) < 1500,
     eliminated_overall_reversal_possible |->
         overall_reversal_impossibility(config, state, a) < 1500]

(***************************************************************************)
(* Meaning pressure: pressure/*.py, MeaningPressureCalculator              *)
(***************************************************************************)
\* reversal_pressure.calculate_reversal_pressure: <<impossibility, possible>>
calculate_reversal_pressure(current_rank, score_gap_from_first, max_points_per_round, remaining_rounds, max_set_bonus, hp) ==
    LET risk_bonus_multiplier == IF hp = 1 THEN 1300 ELSE 1000
        gain == IntOfMilli(max_points_per_round * remaining_rounds * risk_bonus_multiplier)
    IN  IF current_rank > 1 /\ score_gap_from_first > 0
        THEN IF score_gap_from_first > gain + max_set_bonus THEN <<2000, FALSE>>
             ELSE IF score_gap_from_first > gain THEN <<1500, TRUE>>
             ELSE IF 2 * score_gap_from_first > gain THEN <<1000, TRUE>>
             ELSE <<500, TRUE>>
        ELSE <<0, TRUE>>

\* reversal_pressure.py lines 80-107: the most an agent can still gain
calculator_reversal_max_gain(config, a) ==
    LET base_max_set_bonus == DictGet(config.set_rank_bonus, 1, 30)
        future_max_set_bonus ==
            IF config.env_enabled /\ DOMAIN config.environments # {}
            THEN IntOfMilli(base_max_set_bonus
                            * avg_future_multiplier(reversal_multipliers,
                                  config.environments, a.current_set, a.total_sets))
            ELSE base_max_set_bonus
        max_per_set == config.max_points_per_round * a.total_rounds + future_max_set_bonus
    IN  max_per_set * (a.total_sets - a.current_set)
        + config.max_points_per_round * a.remaining_rounds
        + IntOfMilli(base_max_set_bonus * a.env_bonus_multiplier)

\* reversal_pressure.calculate_overall_reversal_pressure: <<impossibility, possible>>
calculate_overall_reversal_pressure(config, a) ==
    LET g == calculator_reversal_max_gain(config, a)
    IN  IF a.total_sets <= 1 \/ a.overall_rank <= 1 \/ a.overall_gap <= 0
        THEN <<0, TRUE>>
        ELSE IF a.overall_gap > g THEN <<2000, FALSE>>
        ELSE IF 10 * a.overall_gap > 8 * g THEN <<1500, TRUE>>
        ELSE IF 2 * a.overall_gap > g THEN <<1000, TRUE>>
        ELSE <<500, TRUE>>

\* elimination_pressure.py lines 52-68
calculator_avg_max_per_set(config, a) ==
    LET avg_multiplier ==
            IF config.env_enabled /\ DOMAIN config.environments # {}
            THEN avg_future_multiplier(reversal_multipliers,
                     config.environments, a.current_set, a.total_sets)
            ELSE 1000
    IN  config.max_points_per_round * a.total_rounds
        + IntOfMilli(DictGet(config.set_rank_bonus, 1, 30) * avg_multiplier)

\* elimination_pressure.py lines 70-82
calculator_elimination_max_gain(config, a) ==
    calculator_avg_max_per_set(config, a) * (a.total_sets - a.current_set)
    + config.max_points_per_round * a.remaining_rounds
    + IntOfMilli(DictGet(config.set_rank_bonus, 1, 30) * a.env_bonus_multiplier)

\* the elimination-line pressure with the bands exchanged
calculate_elimination_line_pressure_swapped(config, a) ==
    LET margin_to_elimination == calculator_elimination_max_gain(config, a) - a.overall_gap
        per_set == calculator_avg_max_per_set(config, a)
    IN  IF a.total_sets <= 1 \/ a.overall_rank <= 1 \/ a.overall_gap <= 0 THEN 0
        ELSE IF margin_to_elimination <= 0 THEN 5000
        ELSE IF 10 * margin_to_elimination < 3 * per_set THEN 2000
        ELSE IF 10 * margin_to_elimination < 7 * per_set THEN 3000
        ELSE IF 10 * margin_to_elimination < 12 * per_set THEN 1000
        ELSE 0

\* elimination_pressure.calculate_elimination_line_pressure
calculate_elimination_line_pressure(config, a) ==
    LET margin_to_elimination == calculator_elimination_max_gain(config, a) - a.overall_gap
        per_set == calculator_avg_max_per_set(config, a)
    IN  IF a.total_sets <= 1 \/ a.overall_rank <= 1 \/ a.overall_gap <= 0 THEN 0
        ELSE IF margin_to_elimination <= 0 THEN 5000
        ELSE IF 10 * margin_to_elimination < 3 * per_set THEN 3000
        ELSE IF 10 * margin_to_elimination < 7 * per_set THEN 2000
        ELSE IF 10 * margin_to_elimination < 12 * per_set THEN 1000
        ELSE 0

\* multi_conflict_pressure.calculate_multi_conflict_pressure
calculate_multi_conflict_pressure(hp, mhp, current_rank, score_gap_from_first, alive_count, total_score, reversal_imp) ==
    LET fears == three_fears(hp, mhp, current_rank, score_gap_from_first,
                             alive_count, total_score, reversal_imp)
        base_endgame_multiplier == (4 - alive_count) * 300
        is_winning == current_rank <= 2
        is_losing  == current_rank >= 5
        healthy    == hp * 5 > 2 * mhp
        endgame ==
            IF alive_count > 3 THEN fears
            ELSE IF is_winning /\ healthy
            THEN MulMilli(fears, 900) + MulMilli(base_endgame_multiplier, 1200)
            ELSE IF is_losing \/ ~healthy
            THEN MulMilli(fears, 1150) + MulMilli(base_endgame_multiplier, 2000)
            ELSE fears + MulMilli(base_endgame_multiplier, 2500)
    IN  IF total_score < 0 THEN endgame + Abs(total_score) * 40 ELSE endgame

\* MeaningPressureCalculator.calculate, lines 55-147: before the final-round
\* correction
calculator_pre_final_pressure(config, state, a) ==
    LET max_set_bonus == IntOfMilli(DictGet(config.set_rank_bonus, 1, 30)
                                    * a.env_bonus_multiplier)
        set_rev == calculate_reversal_pressure(a.current_rank, a.score_gap_from_first,
                       config.max_points_per_round, a.remaining_rounds, max_set_bonus,
                       state.hp)
        overall_rev == calculate_overall_reversal_pressure(config, a)
        reversal_imp == IF a.total_sets > 1 /\ a.overall_rank <= 2
                        THEN MulMilli(set_rev[1], 500)
                        ELSE Max(set_rev[1], overall_rev[1])
        p0 == config.base_weight
              + MulMilli(config.round_progression_weight,
                         (a.round_num * 1000) \div a.total_rounds)
        p1 == p0 + calculate_elimination_line_pressure(config, a)
        p2 == p1 + calculate_multi_conflict_pressure(state.hp, config.max_hp,
                       a.current_rank, a.score_gap_from_first, a.alive_count,
                       state.total_score, reversal_imp)
    IN  IF a.current_rank > 1
        THEN p2 + MulMilli(config.score_gap_weight * (a.current_rank - 1), 500)
                + Min(Abs(a.score_gap_from_first) * 50, 5000)
        ELSE p2

\* MeaningPressureCalculator.calculate, lines 149-166: the factor of the
\* final-round correction
calculator_final_round_factor(config, a) ==
    IF a.current_set = a.total_sets
    THEN IF a.current_rank = 1 THEN 700
         ELSE IF a.current_rank <= 3 THEN config.finality_weight
         ELSE config.desperation_bonus
    ELSE config.finality_weight

\* MeaningPressureCalculator.calculate: the 'pressure' entry of its result
calculate(config, state, a) ==
    LET pressure == calculator_pre_final_pressure(config, state, a)
    IN  IF a.is_final_round
        THEN MulMilli(pressure, calculator_final_round_factor(config, a))
        ELSE pressure

(***************************************************************************)
(* SpecPressure: one decision context handed to both pressure aggregators  *)
(***************************************************************************)
\* configurations: no environment shifts, one HP per crash; environment
\* shifts with a deadly second set, two HP per crash, a single rank bonus;
\* and the first one with environment shifts and a volatile second set
PressureConfigs ==
    { [base_weight |-> 1000, round_progression_weight |-> 500, score_gap_weight |-> 300,
       max_points_per_round |-> 20, set_rank_bonus |-> (1 :> 30 @@ 2 :> 15 @@ 3 :> 5),
       finality_weight |-> 1500, desperation_bonus |-> 500, max_hp |-> 5,
       crash_hp_loss |-> 1, env_enabled |-> FALSE, environments |-> <<>>],
      [base_weight |-> 500, round_progression_weight |-> 1000, score_gap_weight |-> 200,
       max_points_per_round |-> 10, set_rank_bonus |-> (1 :> 10),
       finality_weight |-> 2000, desperation_bonus |-> 1000, max_hp |-> 5,
       crash_hp_loss |-> 2, env_enabled |-> TRUE,
       environments |-> (1 :> "safe" @@ 2 :> "deadly")],
      [base_weight |-> 1000, round_progression_weight |-> 500, score_gap_weight |-> 300,
       max_points_per_round |-> 20, set_rank_bonus |-> (1 :> 30 @@ 2 :> 15 @@ 3 :> 5),
       finality_weight |-> 1500, desperation_bonus |-> 500, max_hp |-> 5,
       crash_hp_loss |-> 1, env_enabled |-> TRUE,
       environments |-> (1 :> "normal" @@ 2 :> "volatile")] }

\* rounds per set and sets per tournament
RoundsPerSet == 2

SetCounts == {1, 2}

\* <<alive_count, current_rank>>
RankContexts == {<<2, 1>>, <<2, 2>>, <<3, 3>>, <<5, 1>>, <<5, 2>>, <<5, 5>>}

\* first_place_score - score, for an agent that is not first in the set
SetGaps == {0, 25, 60}

\* overall_gap of the overall leader (second's total minus own) and of the others
LeaderGaps == {0, -30, -100}

TrailingGaps == {0, 5, 40, 200}

EnvBonusMultipliers == {900, 1800}

TotalScores == {-20, 0, 150}

HpValues == {1, 2, 3, 5}

InitPressure ==
    /\ game_config \in PressureConfigs
    /\ \E hp \in HpValues, ts \in TotalScores :
          player_state = [hp |-> hp, total_score |-> ts]
    /\ \E total_sets \in SetCounts, rc \in RankContexts, env \in EnvBonusMultipliers,
          overall_rank \in 1..2 :
       \E current_set \in 1..total_sets, round_num \in 1..RoundsPerSet,
          gap \in (IF rc[2] = 1 THEN {0} ELSE SetGaps),
          overall_gap \in (IF overall_rank = 1 THEN LeaderGaps ELSE TrailingGaps) :
          decision_context =
              [round_num |-> round_num, total_rounds |-> RoundsPerSet,
               is_final_round |-> (round_num = RoundsPerSet),
               current_rank |-> rc[2], score_gap_from_first |-> gap,
               alive_count |-> rc[1], remaining_rounds |-> RoundsPerSet - round_num,
               current_set |-> current_set, total_sets |-> total_sets,
               overall_rank |-> overall_rank, overall_gap |-> overall_gap,
               env_bonus_multiplier |-> env]
    /\ pressure_result = [called |-> FALSE]
    /\ SSDIdle
    /\ ChoiceIdle
    /\ GameIdle

\* ChickenPlayer.make_choice, lines 813-821, and MeaningPressureCalculator.calculate
\* on the same context
CalculateMeaningPressure ==
    /\ ~pressure_result.called
    /\ pressure_result' =
          [called |-> TRUE,
           pre_final |-> pre_final_pressure(game_config, player_state, decision_context),
           pressure |-> _calculate_meaning_pressure(game_config, player_state,
                                                    decision_context),
           flags |-> reversal_flags(game_config, player_state, decision_context),
           calculator_pre_final |->
               calculator_pre_final_pressure(game_config, player_state, decision_context),
           calculator_pressure |-> calculate(game_config, player_state, decision_context)]
    /\ UNCHANGED <<game_config, player_state, decision_context, outside_pressure>>

NextPressure == CalculateMeaningPressure

SpecPressure == InitPressure /\ [][NextPressure]_vars

\* the case of C7: final round of the final set, the agent is first in the
\* set and overall, and its overall lead exceeds the best round score plus
\* the rank-1 set bonus
C7_LockedWin ==
    /\ pressure_result.called
    /\ decision_context.is_final_round
    /\ decision_context.current_set = decision_context.total_sets
    /\ decision_context.current_rank = 1
    /\ decision_context.overall_rank = 1
    /\ decision_context.overall_gap < 0
    /\ 1000 * (-decision_context.overall_gap)
         > 10 * decision_context.env_bonus_multiplier
           + 1000 * IntOfMilli(DictGet(game_config.set_rank_bonus, 1, 0)
                               * decision_context.env_bonus_multiplier)

py_advance(s) == (s * 25173 + 13849) % 65536

RECURSIVE py_state(_, _)
py_state(s, n) == IF n = 0 THEN s ELSE py_state(py_advance(s), n - 1)

\* numpy's generator
np_advance(s) == (s * 9301 + 49297) % 65536

RECURSIVE np_state(_, _)
np_state(s, n) == IF n = 0 THEN s ELSE np_state(np_advance(s), n - 1)

\* the float in [0, 1) a generator hands out on reaching state s (milli)
uniform(s) == (s * 1000) \div 65536

\* random.random(), the n-th call from now
random_random(g, n) == uniform(py_state(g.py_rng, n))

\* np.random.random() / the uniform variate behind np.random.choice, the n-th from now
np_random(g, n) == uniform(np_state(g.np_rng, n))

\* random.randint(lo, hi) for the generator state s it reaches
randint(lo, hi, s) == lo + ((s \div 64) * (hi - lo + 1)) \div 1024

\* a seeding that leaves numpy's generator as the process started it
seed_generators_numpy_unseeded(generators, seed) ==
    [py |-> seed % 65536, np |-> generators.np]

\* random.seed(seed); np.random.seed(seed)
seed_generators(generators, seed) ==
    [py |-> seed % 65536, np |-> (7 * (seed % 65536) + 1) % 65536]

\* main(): the seed is the --seed argument or, without one, drawn from the
\* generator as the process started it; <<seed, generators>>
main_seed(args, generators) ==
    IF args.given
    THEN <<args.value, seed_generators(generators, args.value)>>
    ELSE LET s    == py_advance(generators.py)
             seed == randint(0, 999999, s)
         IN  <<seed, seed_generators([generators EXCEPT !.py = s], seed)>>

\* sorted(seq, key=..., reverse=True): a stable sort, equal keys keep list order
sorted_desc(seq, key) ==
    LET before(i) == Cardinality({j \in 1..Len(seq) :
                        \/ key[seq[j]] > key[seq[i]]
                        \/ key[seq[j]] = key[seq[i]] /\ j < i})
    IN  [r \in 1..Len(seq) |-> seq[CHOOSE i \in 1..Len(seq) : before(i) = r - 1]]

\* {x: i + 1 for i, x in enumerate(seq)}
positions(seq) == [x \in {seq[i] : i \in 1..Len(seq)} |->
                      CHOOSE i \in 1..Len(seq) : seq[i] = x]

\* [x for x in seq if keep[x]]
RECURSIVE filter_seq(_, _)
filter_seq(seq, keep) ==
    IF seq = <<>> THEN <<>>
    ELSE IF keep[Head(seq)] THEN <<Head(seq)>> \o filter_seq(Tail(seq), keep)
    ELSE filter_seq(Tail(seq), keep)

(***************************************************************************)
(* Configurations (chicken_game_config.yaml is not part of the sources:    *)
(* the values are inputs)                                                  *)
(***************************************************************************)
\* a player entry of config['players']
PlayerConfig(name, personality, E_threshold, nash_equilibrium) ==
    [name |-> name, personality |-> personality, kappa |-> 300,
     E_threshold |-> E_threshold, T_base |-> 800,
     personality_weights |-> [low_risk |-> 300, medium_risk |-> 400, high_risk |-> 300],
     nash_equilibrium |-> nash_equilibrium, band_aware |-> FALSE,
     rule_name |-> "None"]

AiPlayers ==
    << PlayerConfig(1, "cautious", 200, FALSE),
       PlayerConfig(2, "aggressive", 5000, FALSE),
       PlayerConfig(3, "calculating", 5000, TRUE) >>

HumanPlayers ==
    << PlayerConfig(1, "human", 200, FALSE),
       PlayerConfig(2, "human", 5000, FALSE),
       PlayerConfig(3, "human", 5000, TRUE) >>

\* one set of three rounds, no environment shifts, one HP per crash
OneSetConfig ==
    [base_weight |-> 1000, round_progression_weight |-> 500, score_gap_weight |-> 300,
     max_points_per_round |-> 20, set_rank_bonus |-> (1 :> 30 @@ 2 :> 15 @@ 3 :> 5),
     finality_weight |-> 1500, desperation_bonus |-> 500,
     min_choice |-> 1, max_choice |-> 10,
     starting_hp |-> 2, starting_score |-> 0, max_hp |-> 5, crash_hp_loss |-> 1,
     hp_purchase_cost |-> 20,
     crash_probabilities |-> (1 :> 20 @@ 2 :> 50 @@ 3 :> 100 @@ 4 :> 200 @@ 5 :> 300
                              @@ 6 :> 400 @@ 7 :> 500 @@ 8 :> 600 @@ 9 :> 700 @@ 10 :> 800),
     success_bonuses |-> (8 :> 2 @@ 9 :> 3 @@ 10 :> 5),
     crash_penalty_multiplier |-> -1500,
     sets |-> 1, rounds |-> 3,
     env_enabled |-> FALSE, ai_voting |-> FALSE, environments |-> <<>>,
     modifiers |-> [e \in EnvTypes |-> [risk_multiplier |-> <<1000>>,
                                        bonus_multiplier |-> <<1000>>]],
     ssd_theory |-> SensitiveCore, E_initial |-> 0, comment_probability |-> 300,
     players |-> AiPlayers]

\* two sets of two rounds in environments fixed per set (the second one with
\* multipliers drawn from a range), two HP per crash, players for which
\* is_ai is false
FixedEnvironmentsConfig ==
    [OneSetConfig EXCEPT
        !.sets = 2, !.rounds = 2, !.starting_hp = 3, !.crash_hp_loss = 2,
        !.hp_purchase_cost = 5, !.env_enabled = TRUE,
        !.environments = (1 :> "deadly" @@ 2 :> "volatile"),
        !.modifiers = [e \in EnvTypes |->
            IF e = "deadly" THEN [risk_multiplier |-> <<1500>>, bonus_multiplier |-> <<1500>>]
            ELSE IF e = "volatile"
            THEN [risk_multiplier |-> <<500, 1500>>, bonus_multiplier |-> <<800, 1600>>]
            ELSE [risk_multiplier |-> <<1000>>, bonus_multiplier |-> <<1000>>]],
        !.players = HumanPlayers]

\* two sets of one round, no environment shifts, players for which is_ai is true
TwoSetsConfig == [OneSetConfig EXCEPT !.sets = 2, !.rounds = 1]

\* two sets of one round, no environment shifts, is_ai false, one HP per crash
PurchaseConfig ==
    [OneSetConfig EXCEPT !.sets = 2, !.rounds = 2, !.hp_purchase_cost = 5,
                         !.players = HumanPlayers]

\* the environment of each set put to the players' vote
AiVotingConfig ==
    [OneSetConfig EXCEPT !.sets = 2, !.rounds = 1, !.env_enabled = TRUE,
                         !.ai_voting = TRUE]

\* one set of three rounds: two rule-based agents (a known rule, and a name
\* RuleStrategy does not know) and a Nash-flagged SSD agent
RuleConfig ==
    [OneSetConfig EXCEPT
        !.players = << [PlayerConfig(1, "cautious", 200, FALSE) EXCEPT !.rule_name = "hp_guard"],
                       [PlayerConfig(2, "aggressive", 5000, FALSE) EXCEPT !.rule_name = "aggressive"],
                       PlayerConfig(3, "calculating", 5000, TRUE) >>]

\* two sets of two rounds in fixed environments: two rule-based agents that
\* read the standings and the opponents' choices, and an SSD agent; two of
\* the three with a base temperature of their own
RuleEnvironmentsConfig ==
    [FixedEnvironmentsConfig EXCEPT
        !.players = << [PlayerConfig(1, "human", 200, FALSE) EXCEPT !.rule_name = "copycat_plus1"],
                       [PlayerConfig(2, "human", 5000, FALSE) EXCEPT
                           !.rule_name = "safe_then_push", !.T_base = 500],
                       [PlayerConfig(3, "human", 5000, FALSE) EXCEPT !.T_base = 1200] >>]

TournamentConfigs ==
    {OneSetConfig, FixedEnvironmentsConfig, TwoSetsConfig, PurchaseConfig, AiVotingConfig,
     RuleConfig, RuleEnvironmentsConfig}

\* the player indexes, in the order of config['players']
player_list(config) == [i \in 1..Len(config.players) |-> i]

\* the SSDCore ChickenPlayer.__init__ builds
player_core(config, p) ==
    [config.ssd_theory EXCEPT !.kappa_init = config.players[p].kappa,
                               !.jump_threshold = config.players[p].E_threshold,
                               !.T_base = config.players[p].T_base]

\* the SSDStrategy ChickenPlayer.__init__ builds
player_ssd_strategy(config, p) ==
    [nash_equilibrium_enabled |-> config.players[p].nash_equilibrium,
     band_aware |-> config.players[p].band_aware,
     personality_weights |-> config.players[p].personality_weights,
     max_hp |-> config.max_hp, _safe_set |-> {}, _push_set |-> {}]

\* update_ssd's learning_modifiers
player_learning_modifiers(config, p) ==
    LET w == config.players[p].personality_weights
    IN  [learning_speed |-> DictGet(w, "learning_speed", 1000),
         pressure_sensitivity |-> DictGet(w, "pressure_sensitivity", 1000),
         temperature_sensitivity |-> DictGet(w, "temperature_sensitivity", 1000),
         jump_threshold_modifier |-> DictGet(w, "jump_threshold_modifier", 1000)]

\* PlayerState's elimination fields as the dataclass initialises them
no_elimination ==
    [set |-> 0, round |-> 0, choice |-> 0, hp |-> 0, rank |-> 0, score |-> 0,
     gap |-> 0, overall_rank |-> 0, overall_gap |-> 0, reason |-> ""]

\* ChickenPlayer.__init__: is_ai, the PlayerState and the SSDState
\* (overall_rank / overall_gap None are held as 0); ledger is a history of
\* what the game has credited to and charged from the player, kept for the
\* properties stated about the scores
ChickenPlayer(config, p) ==
    [name |-> config.players[p].name,
     is_ai |-> (config.players[p].personality # "human"),
     hp |-> config.starting_hp, is_alive |-> TRUE,
     score |-> config.starting_score, total_score |-> config.starting_score,
     overall_rank |-> 0, overall_gap |-> 0,
     eliminated |-> no_elimination,
     choice_history |-> <<>>, success_history |-> <<>>,
     opponent_choices |-> [q \in {} |-> <<>>],
     set_ranks |-> <<>>,
     current_choice |-> 0, crashed |-> FALSE, round_score |-> 0,
     rule_name |-> config.players[p].rule_name,
     ledger |-> [round_changes |-> 0, risk_bonuses |-> 0, rank_bonuses |-> 0,
                 hp_spent |-> 0],
     rule_bands |-> [ready |-> FALSE, safe_set |-> {}, push_set |-> {}],
     ssd_state |-> [initialize_state(player_core(config, p)) EXCEPT !.E = config.E_initial]]

(***************************************************************************)
(* RuleStrategy: the rule-based agents.  The strategy reads the crash      *)
(* probabilities and bonuses of the configuration dictionary it shares     *)
(* with the game (g.crash_probabilities, g.success_bonuses).  Where        *)
(* Python's min / max meet equal keys the model takes the smallest action. *)
(***************************************************************************)
\* RuleStrategy._risk_score (milli): crash_p * (rem / total_rounds) * (1.0 + 1.5 / hp), hp = max(1, 1)
_risk_score(config, g, a, rem_rounds) ==
    MulMilli(DictGet(g.crash_probabilities, a, 0),
             MulMilli(RoundDiv(rem_rounds * 1000, config.rounds), 1000 + 1500))

\* RuleStrategy._leverage_score (milli): (1.0 - crash_p) * (a + bonus)
_leverage_score(g, a) ==
    MulMilli(1000 - DictGet(g.crash_probabilities, a, 0),
             (a + DictGet(g.success_bonuses, a, 0)) * 1000)

\* RuleStrategy._calibrate_bands: the k safest and the k best-leveraged of the
\* choices min_choice..max_choice, k a third of them
RuleStrategy_calibrate_bands(config, g) ==
    LET choices == [i \in 1..(config.max_choice - config.min_choice + 1) |->
                       config.min_choice + i - 1]
        rem_rounds_mid == Max(1, config.rounds \div 2)
        by_risk == sorted_desc(choices,
                       [a \in config.min_choice..config.max_choice |->
                           -_risk_score(config, g, a, rem_rounds_mid)])
        by_lev == sorted_desc(choices,
                       [a \in config.min_choice..config.max_choice |->
                           _leverage_score(g, a)])
        k == Max(1, Len(choices) \div 3)
    IN  [ready |-> TRUE,
         safe_set |-> {by_risk[i] : i \in 1..k},
         push_set |-> {by_lev[i] : i \in 1..k}]

\* the position of the safest candidate in place of the candidate
_pick_safest_position(config, g, candidates, rem_rounds) ==
    Cardinality({b \in candidates : _risk_score(config, g, b, rem_rounds) < 0})

\* RuleStrategy._pick_safest: min(candidates, key = risk)
_pick_safest(config, g, candidates, rem_rounds) ==
    IF candidates = {} THEN config.min_choice
    ELSE CHOOSE a \in candidates : \A b \in candidates :
            \/ _risk_score(config, g, a, rem_rounds) < _risk_score(config, g, b, rem_rounds)
            \/ /\ _risk_score(config, g, a, rem_rounds) = _risk_score(config, g, b, rem_rounds)
               /\ a <= b

\* RuleStrategy._pick_best_push: max(candidates, key = leverage)
_pick_best_push(config, g, candidates) ==
    IF candidates = {} THEN config.max_choice
    ELSE CHOOSE a \in candidates : \A b \in candidates :
            \/ _leverage_score(g, a) > _leverage_score(g, b)
            \/ _leverage_score(g, a) = _leverage_score(g, b) /\ a <= b

\* RuleStrategy._execute_rule for the rule named rule_name, the bands being
\* calibrated; an unknown name falls through to the default
_execute_rule(config, g, bands, rule_name, rem, is_final_round, current_rank, hp, opponents) ==
    LET safest == _pick_safest(config, g, bands.safe_set, rem)
        push == _pick_best_push(config, g, bands.push_set)
        recent == {q \in DOMAIN opponents : opponents[q] # <<>>}
        last_of[q \in recent] == opponents[q][Len(opponents[q])]
        RECURSIVE total(_)
        total(S) == IF S = {} THEN 0
                    ELSE LET q == CHOOSE x \in S : TRUE
                         IN  last_of[q] + total(S \ {q})
        \* int(round(sum(recent) / len(recent) + 1)), halves rounded to even
        n == total(recent) + Cardinality(recent)
        d == Cardinality(recent)
        rounded == IF 2 * (n % d) > d THEN n \div d + 1
                   ELSE IF 2 * (n % d) < d THEN n \div d
                   ELSE IF (n \div d) % 2 = 0 THEN n \div d ELSE n \div d + 1
        target == IF recent = {} THEN 7 ELSE Min(10, Max(1, rounded))
        pool == bands.safe_set \cup bands.push_set
    IN  CASE rule_name = "always7" -> safest
          [] rule_name = "hp_guard" ->
                IF hp <= 2 THEN safest
                ELSE IF bands.push_set \cap bands.safe_set # {}
                THEN _pick_safest(config, g, bands.push_set \cap bands.safe_set, rem)
                ELSE _pick_safest(config, g, bands.push_set, rem)
          [] rule_name = "safe_then_push" ->
                IF is_final_round THEN (IF current_rank > 1 THEN push ELSE safest)
                ELSE IF rem <= 2 /\ current_rank > 1 THEN push
                ELSE safest
          [] rule_name = "copycat_plus1" ->
                CHOOSE a \in pool : \A b \in pool :
                    \/ Abs(a - target) < Abs(b - target)
                    \/ /\ Abs(a - target) = Abs(b - target)
                       /\ \/ _risk_score(config, g, a, rem) < _risk_score(config, g, b, rem)
                          \/ /\ _risk_score(config, g, a, rem) = _risk_score(config, g, b, rem)
                             /\ a <= b
          [] rule_name = "anti_crash" -> safest
          [] rule_name = "final_gambler" ->
                IF is_final_round THEN (IF current_rank > 1 THEN push ELSE safest)
                ELSE safest
          [] OTHER -> safest

\* RuleStrategy.make_choice: the bands calibrated at the first call, then the rule
RuleStrategy_make_choice(config, g, p, bands) ==
    _execute_rule(config, g, bands, g.players[p].rule_name,
                  config.rounds - g.round_num + 1,
                  g.round_num = config.rounds,
                  g.ranks[p], g.players[p].hp, g.players[p].opponent_choices)

(***************************************************************************)
(* ChickenGame                                                             *)
(***************************************************************************)
\* ChickenGame.__init__, and main()'s game.seed_used = seed; the process is
\* about to call play_tournament
ChickenGame(config, seed, generators) ==
    [seed_used |-> seed, py_rng |-> generators.py, np_rng |-> generators.np,
     players |-> [p \in 1..Len(config.players) |-> ChickenPlayer(config, p)],
     current_environment |-> "normal",
     current_risk_multiplier |-> 1000, current_bonus_multiplier |-> 1000,
     crash_probabilities |-> config.crash_probabilities,
     success_bonuses |-> config.success_bonuses,
     pc |-> "play_tournament", set_num |-> 0, round_num |-> 0,
     alive_players |-> <<>>, ranks |-> <<>>, overall_ranks |-> <<>>, all_sorted |-> <<>>,
     first_place_score |-> 0, overall_first_score |-> 0,
     player_contexts |-> <<>>, choices |-> <<>>, scores |-> <<>>,
     round_played |-> FALSE, position |-> 0,
     raised |-> "None", last_call |-> [op |-> "__init__", player |-> 0], steps |-> 0]

\* an exception leaves play_tournament
raise(g, exception, call) ==
    [g EXCEPT !.pc = "raised", !.raised = exception, !.last_call = call]

\* ChickenGame._get_env_bonus_multiplier
_get_env_bonus_multiplier(current_environment) ==
    CASE current_environment = "safe" -> 750
      [] current_environment = "normal" -> 900
      [] current_environment = "mild" -> 1100
      [] current_environment = "moderate" -> 1300
      [] current_environment = "volatile" -> 1200
      [] current_environment = "deadly" -> 1800
      [] OTHER -> 1000

\* the generator after one of the _speak_* methods whose comment is a single
\* random.choice: the random.random() gate, then the pick
after_speak(config, s) ==
    LET s1 == py_advance(s)
    IN  IF uniform(s1) > config.comment_probability THEN s1 ELSE py_advance(s1)

\* the generator after ChickenPlayer._speak_choice: the total_score branches
\* draw once more before the pick
after_speak_choice(config, me, s) ==
    LET s1 == py_advance(s)
    IN  IF uniform(s1) > config.comment_probability THEN s1
        ELSE IF me.hp * 10 <= config.max_hp * 4 THEN py_advance(s1)
        ELSE IF me.total_score >= 50 \/ me.total_score <= -30
             THEN py_advance(py_advance(s1))
        ELSE py_advance(s1)

\* ChickenGame._ai_vote_environment: the first player with hp > 0 is handed to
\* _choose_environment_strategy, which reads player.state.kappa; PlayerState
\* has no such attribute.  With no such player the vote list stays empty and
\* most_common[0] does not exist.
_ai_vote_environment(config, g) ==
    LET voters == filter_seq(player_list(config),
                             [p \in 1..Len(g.players) |-> ~(g.players[p].hp <= 0)])
    IN  IF voters = <<>>
        THEN raise(g, "IndexError", [op |-> "_ai_vote_environment", player |-> 0])
        ELSE raise(g, "AttributeError",
                   [op |-> "_choose_environment_strategy", player |-> voters[1]])

\* random.uniform(lo, hi) for a list, the value itself otherwise: <<value, generator>>
multiplier_value(mult, s) ==
    IF Len(mult) = 2
    THEN LET s1 == py_advance(s)
         IN  <<mult[1] + MulMilli(mult[2] - mult[1], uniform(s1)), s1>>
    ELSE <<mult[1], s>>

\* ChickenGame._apply_environment_shift
_apply_environment_shift(config, g, set_num) ==
    IF ~config.env_enabled THEN g
    ELSE IF config.ai_voting THEN _ai_vote_environment(config, g)
    ELSE LET env_type == DictGet(config.environments, set_num, "normal")
         IN  IF env_type = "normal"
             THEN [g EXCEPT !.current_environment = "normal",
                            !.current_risk_multiplier = 1000,
                            !.current_bonus_multiplier = 1000,
                            !.crash_probabilities = config.crash_probabilities,
                            !.success_bonuses = config.success_bonuses]
             ELSE LET modifiers == config.modifiers[env_type]
                      risk  == multiplier_value(modifiers.risk_multiplier, g.py_rng)
                      bonus == multiplier_value(modifiers.bonus_multiplier, risk[2])
                  IN  [g EXCEPT
                         !.current_environment = env_type,
                         !.current_risk_multiplier = risk[1],
                         !.current_bonus_multiplier = bonus[1],
                         !.py_rng = bonus[2],
                         !.crash_probabilities =
                             [c \in DOMAIN config.crash_probabilities |->
                                 Max(10, Min(950, MulMilli(config.crash_probabilities[c],
                                                           risk[1])))],
                         !.success_bonuses =
                             [c \in DOMAIN config.success_bonuses |->
                                 IntOfMilli(config.success_bonuses[c] * bonus[1])]]

\* play_round's alive_players, taking every player
alive_players_everyone(config, g) == player_list(config)

\* play_round: alive_players = [p for p in self.players if p.state.is_alive]
alive_players(config, g) ==
    filter_seq(player_list(config), [p \in 1..Len(g.players) |-> g.players[p].is_alive])

\* play_round up to its loop over the alive players: the early return with at
\* most one of them, the set ranks and the overall ranks otherwise
play_round(config, g) ==
    LET alive    == alive_players(config, g)
        score_of == [p \in 1..Len(g.players) |-> g.players[p].score]
        total_of == [p \in 1..Len(g.players) |-> g.players[p].total_score]
        sorted_players == sorted_desc(alive, score_of)
        all_sorted     == sorted_desc(player_list(config), total_of)
    IN  IF Len(alive) <= 1
        THEN [g EXCEPT !.round_played = FALSE, !.pc = "end_round",
                       !.last_call = [op |-> "play_round", player |-> 0]]
        ELSE [g EXCEPT !.alive_players = alive,
                       !.ranks = positions(sorted_players),
                       !.overall_ranks = positions(all_sorted),
                       !.all_sorted = all_sorted,
                       !.overall_first_score = total_of[all_sorted[1]],
                       !.first_place_score = score_of[sorted_players[1]],
                       !.player_contexts = <<>>, !.choices = <<>>, !.scores = <<>>,
                       !.round_played = TRUE, !.position = 1, !.pc = "decide",
                       !.last_call = [op |-> "play_round", player |-> 0]]

\* play_round's overall_gap for a player: the gap to the second for the
\* overall leader (negative), to the leader otherwise
round_overall_gap(config, g, p) ==
    IF g.overall_ranks[p] = 1
    THEN (IF Len(g.all_sorted) > 1 THEN g.players[g.all_sorted[2]].total_score ELSE 0)
         - g.players[p].total_score
    ELSE g.overall_first_score - g.players[p].total_score

\* the arguments play_round hands to make_choice
round_context(config, g, p) ==
    [round_num |-> g.round_num, total_rounds |-> config.rounds,
     is_final_round |-> (g.round_num = config.rounds),
     current_rank |-> g.ranks[p],
     score_gap_from_first |-> g.first_place_score - g.players[p].score,
     alive_count |-> Len(g.alive_players),
     remaining_rounds |-> config.rounds - g.round_num,
     current_set |-> g.set_num, total_sets |-> config.sets,
     overall_rank |-> g.overall_ranks[p],
     overall_gap |-> round_overall_gap(config, g, p),
     env_bonus_multiplier |-> _get_env_bonus_multiplier(g.current_environment)]

\* make_choice, STEP 3 and the rest: the action drawn from the distribution
\* (numpy draw 2) is recorded and commented
record_choice(config, g, p, chosen, drawn) ==
    [g EXCEPT !.players[p].ssd_state.last_strategy = chosen,
              !.players[p].current_choice = drawn,
              !.players[p].choice_history = Append(@, drawn),
              !.np_rng = np_state(@, 2),
              !.py_rng = after_speak_choice(config, g.players[p], @)]

\* make_choice, STEP 2: the distribution SSDStrategy.make_choice returns, with
\* last_strategy already set by _choose_strategy
choose_action(config, g, p, meaning_pressure, chosen) ==
    record_choice(config, g, p, chosen,
        draw_choice(SSDStrategy_make_choice(
                        player_ssd_strategy(config, p),
                        [hp |-> g.players[p].hp,
                         choice_history |-> g.players[p].choice_history,
                         success_history |-> g.players[p].success_history],
                        [g.players[p].ssd_state EXCEPT !.last_strategy = chosen],
                        meaning_pressure),
                    np_random(g, 2)))

\* make_choice, STEP 1: ChickenPlayer._choose_strategy (numpy draw 1)
_choose_strategy(config, g, p, meaning_pressure) ==
    choose_action(config, g, p, meaning_pressure,
        choose_strategy(player_core(config, p), g.players[p].ssd_state,
                        meaning_pressure, pressure_thresholds, np_random(g, 1)))

\* a rule-based choice that also names a strategy class
record_rule_choice_classed(config, g, p, bands, made) ==
    [g EXCEPT !.players[p].rule_bands = bands,
              !.players[p].ssd_state.last_strategy = "low_risk",
              !.players[p].current_choice = made,
              !.players[p].choice_history = Append(@, made),
              !.py_rng = after_speak_choice(config, g.players[p], @)]

\* make_choice of a rule-based agent: the choice of the rule is recorded and
\* commented; no strategy class is chosen and numpy is not drawn from
record_rule_choice(config, g, p, bands, made) ==
    [g EXCEPT !.players[p].rule_bands = bands,
              !.players[p].current_choice = made,
              !.players[p].choice_history = Append(@, made),
              !.py_rng = after_speak_choice(config, g.players[p], @)]

\* ChickenPlayer.make_choice: the pressure of the round's context, then the
\* rule of a rule-based agent or the three steps of an SSD agent
make_choice(config, g, p) ==
    IF g.players[p].rule_name # "None"
    THEN IF g.players[p].rule_bands.ready
         THEN record_rule_choice(config, g, p, g.players[p].rule_bands,
                  RuleStrategy_make_choice(config, g, p, g.players[p].rule_bands))
         ELSE record_rule_choice(config, g, p, RuleStrategy_calibrate_bands(config, g),
                  RuleStrategy_make_choice(config, g, p,
                                           RuleStrategy_calibrate_bands(config, g)))
    ELSE _choose_strategy(config, g, p,
             _calculate_meaning_pressure(config,
                                         [hp |-> g.players[p].hp,
                                          total_score |-> g.players[p].total_score],
                                         round_context(config, g, p)))

\* ChickenGame._check_crash: no draw for a choice without a crash probability;
\* <<crashed, generator>>
_check_crash(g, c) ==
    IF c \in DOMAIN g.crash_probabilities
    THEN <<uniform(py_advance(g.py_rng)) < g.crash_probabilities[c], py_advance(g.py_rng)>>
    ELSE <<FALSE, g.py_rng>>

\* a choice that the other players observe at once
append_choice_observed(g, p, c, crash, last) ==
    [g EXCEPT !.py_rng = crash[2],
              !.choices = Append(@, [player |-> p, choice |-> c, crashed |-> crash[1]]),
              !.players = [q \in DOMAIN g.players |->
                              IF q = p THEN g.players[q]
                              ELSE [g.players[q] EXCEPT
                                       !.opponent_choices =
                                           (p :> Append(DictGet(@, p, <<>>), c)) @@ @]],
              !.position = @ + 1,
              !.pc = IF last THEN "scores" ELSE "decide",
              !.last_call = [op |-> "make_choice", player |-> p]]

\* choices.append((player, choice, crashed)) and the step to the next player
append_choice(g, p, c, crash, last) ==
    [g EXCEPT !.py_rng = crash[2],
              !.choices = Append(@, [player |-> p, choice |-> c, crashed |-> crash[1]]),
              !.position = @ + 1,
              !.pc = IF last THEN "scores" ELSE "decide",
              !.last_call = [op |-> "make_choice", player |-> p]]

\* the context play_round keeps for a player's elimination record
keep_context(config, g, p) ==
    [g EXCEPT !.player_contexts = @ @@ (p :>
        [rank |-> g.ranks[p],
         score_gap |-> g.first_place_score - g.players[p].score,
         hp_before |-> g.players[p].hp,
         score |-> g.players[p].score,
         overall_rank |-> g.overall_ranks[p],
         overall_gap |-> round_overall_gap(config, g, p)])]

\* the crash test on the choice the player just made
crash_test(g, p, last) ==
    append_choice(g, p, g.players[p].current_choice,
                  _check_crash(g, g.players[p].current_choice), last)

\* play_round's loop body for the next alive player: the context kept for an
\* elimination, make_choice, and _check_crash on the choice
decide(config, g) ==
    crash_test(make_choice(config, keep_context(config, g, g.alive_players[g.position]),
                           g.alive_players[g.position]),
               g.alive_players[g.position],
               g.position = Len(g.alive_players))

\* ChickenGame._calculate_scores: winner takes all among those who did not
\* crash; a function from the players who chose to their score change
_calculate_scores(config, g) ==
    LET n       == Len(g.choices)
        valid   == {i \in 1..n : ~g.choices[i].crashed}
        highest == CHOOSE c \in {g.choices[i].choice : i \in valid} :
                       \A i \in valid : g.choices[i].choice <= c
        winners == {i \in valid : g.choices[i].choice = highest}
        total_points  == SumSeq([i \in 1..n |-> IF i \in valid THEN g.choices[i].choice
                                                   ELSE 0])
        winner_points == total_points \div Cardinality(winners)
        score(i) ==
            IF valid = {} THEN 0
            ELSE IF g.choices[i].crashed
                 THEN IntOfMilli(g.choices[i].choice * config.crash_penalty_multiplier)
            ELSE IF i \in winners
                 THEN winner_points + DictGet(g.success_bonuses, g.choices[i].choice, 0)
            ELSE -g.choices[i].choice
    IN  [p \in {g.choices[i].player : i \in 1..n} |->
            score(CHOOSE i \in 1..n : g.choices[i].player = p)]

\* ChickenGame._display_scores: a player at 1 HP with a positive score change
\* is given int(0.3 * change) on top, added to its set score
_display_scores(g, scores) ==
    [g EXCEPT !.players = [p \in DOMAIN g.players |->
        IF p \in DOMAIN scores /\ g.players[p].hp = 1 /\ scores[p] > 0
        THEN [g.players[p] EXCEPT
                 !.score = @ + IntOfMilli(Abs(scores[p]) * 300),
                 !.ledger.risk_bonuses = @ + IntOfMilli(Abs(scores[p]) * 300)]
        ELSE g.players[p]]]

\* play_round between its two loops: _display_choices, _calculate_scores,
\* _display_scores
calculate_scores(config, g) ==
    LET scores == _calculate_scores(config, g)
    IN  [_display_scores(g, scores) EXCEPT
            !.scores = scores, !.position = 1, !.pc = "process_result",
            !.last_call = [op |-> "_calculate_scores", player |-> 0]]

\* whether _check_jump would draw: E above the dynamic threshold
jump_armed(core, st, modifiers) ==
    LET kappa_mean == SumSeq([i \in 1..Len(strategy_names) |-> st.kappa[strategy_names[i]]])
                      \div Len(strategy_names)
    IN  st.E > MulMilli(core.jump_threshold, modifiers.jump_threshold_modifier)
               + MulMilli(500, kappa_mean)

\* SSDCore.update's last step for the state heated is what update leaves
\* before _check_jump: the jump test draws from numpy only when armed;
\* <<state, generator>>
check_jump_draw(core, modifiers, st, score_change, heated, s) ==
    IF jump_armed(core, heated, modifiers)
    THEN <<update(core, st, score_change, modifiers, uniform(np_advance(s)))[1],
           np_advance(s)>>
    ELSE <<heated, s>>

\* update_ssd that learns from a reward of 0 whatever the round brought
update_ssd_unrewarded(config, p, st, score_change, s) ==
    IF st.last_strategy = "None" THEN <<st, s>>
    ELSE check_jump_draw(player_core(config, p), player_learning_modifiers(config, p),
                         st, 0,
                         update(player_core(config, p), st, 0,
                                player_learning_modifiers(config, p), 1000)[1],
                         s)

\* ChickenPlayer.update_ssd: nothing without a last strategy, SSDCore.update
\* otherwise; <<state, generator>>
update_ssd(config, p, st, score_change, s) ==
    IF st.last_strategy = "None" THEN <<st, s>>
    ELSE check_jump_draw(player_core(config, p), player_learning_modifiers(config, p),
                         st, score_change,
                         update(player_core(config, p), st, score_change,
                                player_learning_modifiers(config, p), 1000)[1],
                         s)

\* process_result's assignments, its comment, and what update_ssd returned
store_result(config, g, p, crashed, score_change, success, learned) ==
    [g EXCEPT !.players[p].crashed = crashed,
              !.players[p].round_score = score_change,
              !.players[p].score = @ + score_change,
              !.players[p].ledger.round_changes = @ + score_change,
              !.players[p].success_history = Append(@, success),
              !.players[p].ssd_state = learned[1],
              !.py_rng = IF crashed \/ (success /\ g.players[p].current_choice >= 8)
                         THEN after_speak(config, @) ELSE @,
              !.np_rng = learned[2]]

\* ChickenPlayer.process_result
process_result(config, g, p, crashed, score_change, success) ==
    store_result(config, g, p, crashed, score_change, success,
                 update_ssd(config, p, g.players[p].ssd_state, score_change, g.np_rng))

\* an elimination that only clears is_alive
eliminate_unrecorded(config, g, p, c) == [g EXCEPT !.players[p].is_alive = FALSE]

\* play_round's elimination record for a player whose HP a crash brought to 0 or below
eliminate(config, g, p, c) ==
    [g EXCEPT !.players[p].is_alive = FALSE,
              !.players[p].eliminated =
                  [set |-> g.set_num, round |-> g.round_num, choice |-> c,
                   hp |-> g.player_contexts[p].hp_before,
                   rank |-> g.player_contexts[p].rank,
                   score |-> g.player_contexts[p].score,
                   gap |-> g.player_contexts[p].score_gap,
                   overall_rank |-> g.player_contexts[p].overall_rank,
                   overall_gap |-> g.player_contexts[p].overall_gap,
                   reason |-> "crash"]]

\* a crash takes crash_hp_loss from the player's HP
lose_hp(config, g, p) == [g EXCEPT !.players[p].hp = @ - config.crash_hp_loss]

\* play_round after process_result: the HP loss of a crash, the elimination at
\* HP <= 0, and the step to the next entry of choices
after_result(config, g, entry, last) ==
    [(IF entry.crashed /\ g.players[entry.player].hp - config.crash_hp_loss <= 0
      THEN eliminate(config, lose_hp(config, g, entry.player), entry.player, entry.choice)
      ELSE IF entry.crashed THEN lose_hp(config, g, entry.player)
      ELSE g)
     EXCEPT !.position = @ + 1,
            !.pc = IF last THEN "end_round" ELSE "process_result",
            !.last_call = [op |-> "process_result", player |-> entry.player]]

\* play_round's result loop body for the next entry of choices
resolve(config, g) ==
    after_result(config,
                 process_result(config, g, g.choices[g.position].player,
                                g.choices[g.position].crashed,
                                g.scores[g.choices[g.position].player],
                                g.scores[g.choices[g.position].player] > 0),
                 g.choices[g.position],
                 g.position = Len(g.choices))

\* a reset of the round that also empties the outcome history
reset_round_state_outcomes(me) ==
    [me EXCEPT !.current_choice = 0, !.crashed = FALSE, !.round_score = 0,
               !.success_history = <<>>]

\* ChickenPlayer.reset_round_state
reset_round_state(me) ==
    [me EXCEPT !.current_choice = 0, !.crashed = FALSE, !.round_score = 0]

\* the others' choices of the round appended to a player's opponent_choices
record_opponents(g, p) ==
    LET others == {g.choices[i].player : i \in 1..Len(g.choices)} \ {p}
        old    == g.players[p].opponent_choices
    IN  [q \in DOMAIN old \cup others |->
            IF q \in others
            THEN Append(DictGet(old, q, <<>>),
                        g.choices[CHOOSE i \in 1..Len(g.choices) :
                                      g.choices[i].player = q].choice)
            ELSE old[q]]

\* the end of play_round (the opponents' choices, for the players that took
\* part) and play_set's reset_round_state of every player; the next round or
\* the set's results
end_round(config, g) ==
    LET took_part == IF g.round_played
                     THEN {g.alive_players[i] : i \in 1..Len(g.alive_players)}
                     ELSE {}
    IN  [g EXCEPT !.players = [p \in DOMAIN g.players |->
                      reset_round_state(
                          IF p \in took_part
                          THEN [g.players[p] EXCEPT
                                   !.opponent_choices = record_opponents(g, p)]
                          ELSE g.players[p])],
                  !.round_num = IF g.round_num < config.rounds THEN @ + 1 ELSE @,
                  !.pc = IF g.round_num < config.rounds THEN "play_round"
                         ELSE "set_results",
                  !.last_call = [op |-> "reset_round_state", player |-> 0]]

\* ChickenGame._display_set_results: the set rank of every player (the alive
\* by set score, then the eliminated by set score) appended to set_ranks, the
\* rank bonus scaled by the environment added to total_score; the first and
\* the last of the alive comment
_display_set_results(config, g) ==
    LET score_of == [p \in 1..Len(g.players) |-> g.players[p].score]
        alive  == filter_seq(player_list(config),
                             [p \in 1..Len(g.players) |-> g.players[p].is_alive])
        dead   == filter_seq(player_list(config),
                             [p \in 1..Len(g.players) |-> ~g.players[p].is_alive])
        rank   == positions(sorted_desc(alive, score_of) \o sorted_desc(dead, score_of))
        bonus(p) == IntOfMilli(DictGet(config.set_rank_bonus, rank[p], 0)
                               * _get_env_bonus_multiplier(g.current_environment))
        py1 == IF Len(alive) >= 1 THEN after_speak(config, g.py_rng) ELSE g.py_rng
        py2 == IF Len(alive) >= 2 THEN after_speak(config, py1) ELSE py1
    IN  [g EXCEPT !.players = [p \in DOMAIN g.players |->
                      [g.players[p] EXCEPT
                          !.set_ranks = Append(@, rank[p]),
                          !.total_score = IF bonus(p) > 0 THEN @ + bonus(p) ELSE @,
                          !.ledger.rank_bonuses =
                              IF bonus(p) > 0 THEN @ + bonus(p) ELSE @]],
                  !.py_rng = py2,
                  !.pc = IF g.set_num < config.sets THEN "reset_set_score"
                         ELSE "final_results",
                  !.last_call = [op |-> "_display_set_results", player |-> 0]]

\* ChickenPlayer.reset_set_score
reset_set_score(me) ==
    [me EXCEPT !.total_score = @ + me.score, !.score = 0,
               !.ssd_state = reset_temperature(@)]

\* play_set after a set that is not the last: reset_set_score of every player
reset_set_scores(config, g) ==
    [g EXCEPT !.players = [p \in DOMAIN g.players |-> reset_set_score(g.players[p])],
              !.pc = "environment_shift",
              !.last_call = [op |-> "reset_set_score", player |-> 0]]

\* the head of _hp_purchase_phase: every player's overall rank and gap
hp_purchase_ranks(config, g) ==
    LET total_of == [p \in 1..Len(g.players) |-> g.players[p].total_score]
        sorted_players == sorted_desc(player_list(config), total_of)
        rank == positions(sorted_players)
    IN  [g EXCEPT !.players = [p \in DOMAIN g.players |->
                      [g.players[p] EXCEPT
                          !.overall_rank = rank[p],
                          !.overall_gap = total_of[sorted_players[1]] - total_of[p]]],
                  !.position = 1, !.pc = "hp_purchase",
                  !.last_call = [op |-> "_hp_purchase_phase", player |-> 0]]

\* ChickenPlayer.decide_hp_purchase_with_environment: the number of HP to buy
decide_hp_purchase_with_environment(config, me, next_environment) ==
    LET hp_cost == config.hp_purchase_cost
        current_hp == me.hp
        current_score == me.total_score
        max_purchasable == Min(current_score \div hp_cost, config.max_hp - current_hp)
        hp_ratio == RoundDiv(current_hp * 1000, config.max_hp)
        survival_pressure == MulMilli(1000 - hp_ratio, 1000 - hp_ratio)
        env_risk_pressure ==
            CASE next_environment = "deadly" -> 1000
              [] next_environment = "moderate" -> 600
              [] next_environment = "mild" -> 300
              [] next_environment = "normal" -> 200
              [] OTHER -> 100
        effective_gap == IF current_hp = 1 THEN RoundDiv(me.overall_gap * 10000, 13)
                         ELSE me.overall_gap * 1000
        gap_factor == Min(RoundDiv(effective_gap, 100), 1000)
        base_pressure == MulMilli(-800, 1000 - gap_factor)
        reversal_pressure ==
            IF ~me.is_alive THEN 1000
            ELSE IF me.overall_rank = 0 THEN 0
            ELSE IF me.overall_rank = 1 THEN MulMilli(-500, 1000 - gap_factor)
            ELSE IF me.overall_rank <= 3
                 THEN (IF current_hp = 1 THEN MulMilli(base_pressure, 1300)
                       ELSE base_pressure)
            ELSE IF me.overall_rank <= 5 THEN MulMilli(-300, 1000 - gap_factor)
            ELSE MulMilli(500, gap_factor)
        resource_pressure == 1000 - Min(RoundDiv(current_score * 1000, hp_cost * 3), 1000)
        avg_kappa == SumSeq([i \in 1..Len(strategy_names) |->
                                me.ssd_state.kappa[strategy_names[i]]])
                     \div Len(strategy_names)
        conservative_factor == 1000 - avg_kappa
        energy_factor == Min(me.ssd_state.E, 1000)
        total_meaning_pressure ==
            MulMilli(survival_pressure, 1000 + MulMilli(conservative_factor, 500))
            + MulMilli(env_risk_pressure, 1000 + MulMilli(conservative_factor, 300))
            + MulMilli(reversal_pressure, avg_kappa)
            + MulMilli(resource_pressure, 500)
            - MulMilli(energy_factor, 200)
        purchase_count ==
            IF total_meaning_pressure > MulMilli(avg_kappa, 2500) THEN max_purchasable
            ELSE IF total_meaning_pressure > MulMilli(avg_kappa, 1500)
                 THEN Max(1, (max_purchasable + 1) \div 2)
            ELSE IF total_meaning_pressure > MulMilli(avg_kappa, 800) THEN 1
            ELSE 0
    IN  IF max_purchasable <= 0 THEN 0
        ELSE IF current_hp = 1 /\ next_environment = "deadly" /\ purchase_count = 0
             THEN 1
        ELSE purchase_count

\* the purchase charged with the price of one HP whatever the number bought
hp_purchase_flat(config, g) ==
    LET p  == g.position
        me == g.players[p]
        hp_to_buy == decide_hp_purchase_with_environment(config, me, g.current_environment)
        bought == [me EXCEPT !.total_score = @ - config.hp_purchase_cost,
                             !.ledger.hp_spent = @ + hp_to_buy * config.hp_purchase_cost,
                             !.hp = Min(@ + hp_to_buy, config.max_hp)]
        last == (g.position = Len(g.players))
        next == [g EXCEPT !.position = @ + 1,
                          !.pc = IF last THEN "play_round" ELSE "hp_purchase",
                          !.set_num = IF last THEN @ + 1 ELSE @,
                          !.round_num = IF last THEN 1 ELSE @]
    IN  IF ~me.is_alive
        THEN [next EXCEPT !.last_call = [op |-> "_hp_purchase_phase", player |-> 0]]
        ELSE IF me.is_ai
        THEN raise(g, "AttributeError", [op |-> "_hp_purchase_phase", player |-> p])
        ELSE [next EXCEPT
                 !.players[p] = IF hp_to_buy > 0 THEN bought ELSE me,
                 !.last_call = [op |-> "decide_hp_purchase_with_environment",
                                player |-> p]]

\* _hp_purchase_phase's loop body for the next player: an eliminated player is
\* passed over; for an alive one with is_ai the status line reads
\* player.state.kappa, which PlayerState does not have; otherwise the player
\* decides and pays from total_score.  After the last player the next set starts.
hp_purchase(config, g) ==
    LET p  == g.position
        me == g.players[p]
        hp_to_buy == decide_hp_purchase_with_environment(config, me, g.current_environment)
        bought == [me EXCEPT !.total_score = @ - hp_to_buy * config.hp_purchase_cost,
                             !.ledger.hp_spent = @ + hp_to_buy * config.hp_purchase_cost,
                             !.hp = Min(@ + hp_to_buy, config.max_hp)]
        last == (g.position = Len(g.players))
        next == [g EXCEPT !.position = @ + 1,
                          !.pc = IF last THEN "play_round" ELSE "hp_purchase",
                          !.set_num = IF last THEN @ + 1 ELSE @,
                          !.round_num = IF last THEN 1 ELSE @]
    IN  IF ~me.is_alive
        THEN [next EXCEPT !.last_call = [op |-> "_hp_purchase_phase", player |-> 0]]
        ELSE IF me.is_ai
        THEN raise(g, "AttributeError", [op |-> "_hp_purchase_phase", player |-> p])
        ELSE [next EXCEPT
                 !.players[p] = IF hp_to_buy > 0 THEN bought ELSE me,
                 !.last_call = [op |-> "decide_hp_purchase_with_environment",
                                player |-> p]]

\* play_tournament's and play_set's call of _apply_environment_shift for the
\* set that comes next; the first set starts after the first call, the HP
\* purchase phase after the later ones
apply_environment_shift(config, g) ==
    LET shifted == _apply_environment_shift(config, g, g.set_num + 1)
    IN  IF shifted.raised # "None" THEN shifted
        ELSE IF g.set_num = 0
        THEN [shifted EXCEPT !.set_num = 1, !.round_num = 1, !.pc = "play_round",
                             !.last_call = [op |-> "_apply_environment_shift",
                                            player |-> 0]]
        ELSE [shifted EXCEPT !.pc = "hp_purchase_phase",
                             !.last_call = [op |-> "_apply_environment_shift",
                                            player |-> 0]]

\* play_tournament after the last set: the results are displayed
finish_tournament(config, g) ==
    [g EXCEPT !.pc = "done",
              !.last_call = [op |-> "display_tournament_results", player |-> 0]]

(***************************************************************************)
(* SpecGame: two processes given the same command line and the same        *)
(* configuration file, each running main() on its own                      *)
(***************************************************************************)
Processes == {1, 2}

\* --seed values, and the states the generators of a process may start in
Seeds == {1, 2, 3, 5, 8}

StartStates == {11, 4242}

InitGame ==
    /\ args_seed \in {[given |-> TRUE, value |-> s] : s \in Seeds}
                     \cup {[given |-> FALSE, value |-> 0]}
    /\ tournament_config \in TournamentConfigs
    /\ \E start \in [Processes -> StartStates] :
          games = [i \in Processes |->
                      LET seeded == main_seed(args_seed,
                                              [py |-> start[i], np |-> start[i]])
                      IN  ChickenGame(tournament_config, seeded[1], seeded[2])]
    /\ SSDIdle
    /\ ChoiceIdle
    /\ PressureIdle

\* process i takes the step that leads to the game g
Step(i, g) ==
    /\ games' = [games EXCEPT ![i] = [g EXCEPT !.steps = @ + 1]]
    /\ UNCHANGED <<args_seed, tournament_config, outside_game>>

ApplyEnvironmentShift(i) ==
    /\ games[i].pc \in {"play_tournament", "environment_shift"}
    /\ Step(i, apply_environment_shift(tournament_config, games[i]))

PlayRound(i) ==
    /\ games[i].pc = "play_round"
    /\ Step(i, play_round(tournament_config, games[i]))

Decide(i) ==
    /\ games[i].pc = "decide"
    /\ Step(i, decide(tournament_config, games[i]))

CalculateScores(i) ==
    /\ games[i].pc = "scores"
    /\ Step(i, calculate_scores(tournament_config, games[i]))

ProcessResult(i) ==
    /\ games[i].pc = "process_result"
    /\ Step(i, resolve(tournament_config, games[i]))

EndRound(i) ==
    /\ games[i].pc = "end_round"
    /\ Step(i, end_round(tournament_config, games[i]))

DisplaySetResults(i) ==
    /\ games[i].pc = "set_results"
    /\ Step(i, _display_set_results(tournament_config, games[i]))

ResetSetScore(i) ==
    /\ games[i].pc = "reset_set_score"
    /\ Step(i, reset_set_scores(tournament_config, games[i]))

HpPurchasePhase(i) ==
    /\ games[i].pc = "hp_purchase_phase"
    /\ Step(i, hp_purchase_ranks(tournament_config, games[i]))

HpPurchase(i) ==
    /\ games[i].pc = "hp_purchase"
    /\ Step(i, hp_purchase(tournament_config, games[i]))

FinishTournament(i) ==
    /\ games[i].pc = "final_results"
    /\ Step(i, finish_tournament(tournament_config, games[i]))

NextGame ==
    \E i \in Processes :
        \/ ApplyEnvironmentShift(i)
        \/ PlayRound(i)
        \/ Decide(i)
        \/ CalculateScores(i)
        \/ ProcessResult(i)
        \/ EndRound(i)
        \/ DisplaySetResults(i)
        \/ ResetSetScore(i)
        \/ HpPurchasePhase(i)
        \/ HpPurchase(i)
        \/ FinishTournament(i)

SpecGame == InitGame /\ [][NextGame]_vars

\* the players of the tournament
Players == 1..Len(tournament_config.players)

\* C8: determinism.  Two processes that seeded their generators with the
\* same seed and were given the same configuration are, after the same number
\* of steps of the tournament, in the same state: the same choices and
\* crashes of every player so far (choice_history, choices), the same
\* learning state of every player (inertia, energy, temperature, last
\* strategy, jump_count), the same generator states.
C8_Determinism ==
    (games[1].seed_used = games[2].seed_used /\ games[1].steps = games[2].steps)
        => games[1] = games[2]

\* both processes played a whole tournament from the same seed, in which
\* strategy and action draws, crash draws and a jump draw were made
C8_Witness ==
    /\ games[1].seed_used = games[2].seed_used
    /\ games[1].pc = "done" /\ games[2].pc = "done"
    /\ \E p \in Players : games[1].players[p].ssd_state.jump_count > 0
    /\ \E p \in Players : ~games[1].players[p].is_alive
    /\ \E p \in Players : Len(games[2].players[p].choice_history) >= 3

\* C9: an eliminated player stays eliminated and is inert.  In every step of
\* a tournament, a player whose is_alive is false before the step has it
\* false after it, makes no choice (choice_history unchanged), receives no
\* learning update (inertia, energy, last strategy, jump_count and
\* success_history unchanged), buys no HP (hp unchanged), and is not the
\* player the step's make_choice, process_result, environment vote or HP
\* purchase was for.
C9_EliminatedInert ==
    [][\A i \in Processes : \A p \in Players :
          ~games[i].players[p].is_alive =>
              /\ ~games'[i].players[p].is_alive
              /\ games'[i].players[p].choice_history = games[i].players[p].choice_history
              /\ games'[i].players[p].success_history = games[i].players[p].success_history
              /\ games'[i].players[p].ssd_state.kappa = games[i].players[p].ssd_state.kappa
              /\ games'[i].players[p].ssd_state.E = games[i].players[p].ssd_state.E
              /\ games'[i].players[p].ssd_state.last_strategy
                     = games[i].players[p].ssd_state.last_strategy
              /\ games'[i].players[p].ssd_state.jump_count
                     = games[i].players[p].ssd_state.jump_count
              /\ games'[i].players[p].hp = games[i].players[p].hp
              /\ (games'[i] # games[i] => games'[i].last_call.player # p)]_vars

\* a player eliminated in the first set, and the second set under way after a
\* purchase phase in which another player bought HP: the others have chosen
\* and their results have been processed
C9_Witness ==
    \E i \in Processes : \E p \in Players :
        /\ ~games[i].players[p].is_alive
        /\ games[i].players[p].eliminated.set = 1
        /\ games[i].set_num = 2
        /\ games[i].pc = "end_round"
        /\ games[i].round_played
        /\ \E q \in Players \ {p} :
              /\ Len(games[i].players[q].choice_history)
                     > Len(games[i].players[p].choice_history)
              /\ games[i].players[q].hp > tournament_config.starting_hp - 1

\* C10: every player's HP stays within 0..max_hp
C10_HpBounds ==
    \A i \in Processes : \A p \in Players :
        /\ 0 <= games[i].players[p].hp
        /\ games[i].players[p].hp <= tournament_config.max_hp

(***************************************************************************)
(* Elimination record                                                      *)
(***************************************************************************)
\* C11: the elimination metadata (set, round, choice, HP before, rank, score,
\* set gap, overall rank, overall gap, reason) of a player that is alive is
\* still as the dataclass initialised it; a step changes it only when it is the
\* result step of that player, the player was alive with HP above 0 before it
\* and is not alive with HP at or below 0 after it, and then it holds the
\* values of that round; a step that eliminates a player writes it; once
\* written (the player not alive) no step changes it.
C11_EliminationRecordedOnce ==
    [][\A i \in Processes : \A p \in Players :
          LET before == games[i].players[p]
              after == games'[i].players[p]
              written ==
                  [set |-> games[i].set_num, round |-> games[i].round_num,
                   choice |-> before.current_choice, hp |-> before.hp,
                   rank |-> games[i].player_contexts[p].rank,
                   score |-> games[i].player_contexts[p].score,
                   gap |-> games[i].player_contexts[p].score_gap,
                   overall_rank |-> games[i].player_contexts[p].overall_rank,
                   overall_gap |-> games[i].player_contexts[p].overall_gap,
                   reason |-> "crash"]
          IN  /\ before.is_alive => before.eliminated = no_elimination
              /\ after.is_alive => after.eliminated = no_elimination
              /\ ~before.is_alive => after.eliminated = before.eliminated
              /\ (before.is_alive /\ ~after.is_alive) =>
                    /\ games[i].pc = "process_result"
                    /\ games'[i].last_call = [op |-> "process_result", player |-> p]
                    /\ games[i].choices[games[i].position].player = p
                    /\ games[i].choices[games[i].position].crashed
                    /\ before.hp > 0
                    /\ after.hp <= 0
                    /\ after.eliminated = written
                    /\ after.eliminated # no_elimination]_vars

C11_Witness ==
    \E i \in Processes : \E p \in Players :
        /\ games[i].pc = "done"
        /\ ~games[i].players[p].is_alive
        /\ games[i].players[p].eliminated.set = 1
        /\ games[i].players[p].eliminated.round = 2
        /\ games[i].players[p].eliminated.rank >= 2
        /\ games[i].players[p].eliminated.gap > 0
        /\ games[i].set_num = 2

C13_UpdateWithoutStrategy ==
    [][\A i \in Processes : \A p \in Players :
          LET before == games[i].players[p]
              after == games'[i].players[p]
          IN  /\ (/\ before.ssd_state.last_strategy = "None"
                  /\ games[i].pc = "process_result"
                  /\ games[i].choices[games[i].position].player = p
                  /\ games'[i] # games[i])
                 => /\ after.ssd_state = before.ssd_state
                    /\ games'[i].pc # "raised"
                    /\ Len(after.success_history) = Len(before.success_history) + 1
              /\ before.rule_name # "None" =>
                    /\ after.ssd_state.last_strategy = "None"
                    /\ after.ssd_state.kappa =
                          initialize_state(player_core(tournament_config, p)).kappa
                    /\ after.ssd_state.E = tournament_config.E_initial
                    /\ after.ssd_state.jump_count = 0
                    /\ games[i].pc \in {"play_round", "decide", "scores",
                                        "process_result", "end_round"}
                          => after.ssd_state = before.ssd_state]_vars

C13_Witness ==
    \E i \in Processes : \E p \in Players :
        /\ games[i].players[p].rule_name # "None"
        /\ games[i].set_num = 2
        /\ games[i].pc = "end_round"
        /\ Len(games[i].players[p].success_history) >= 3
        /\ \E k \in 1..Len(games[i].players[p].success_history) :
              games[i].players[p].success_history[k]
        /\ \E k \in 1..Len(games[i].players[p].success_history) :
              ~games[i].players[p].success_history[k]
        /\ games[i].players[p].ssd_state.last_strategy = "None"

(***************************************************************************)
(* Decay of the inertia without reward                                     *)
(***************************************************************************)
\* C14: in an update with reward 0 the inertia of the chosen class (the last
\* strategy) does not increase, decreases strictly while it is above kappa_min
\* by more than the resolution of the arithmetic (the decay term
\* lambda_forget * (kappa - kappa_min) is not rounded to nothing), and does
\* not end below kappa_min; its distance to kappa_min after the update is the
\* distance before less the decay term.
C14_ZeroRewardDecay ==
    [][(/\ last_call' = "update"
        /\ n_updates' = n_updates + 1
        /\ \E u \in Draws :
              ssd_state' = update(ssd_core, ssd_state, 0, learning_modifiers, u)[1])
       => LET chosen == ssd_state.last_strategy
              distance == ssd_state.kappa[chosen] - ssd_core.kappa_min
              decay == MulMilli(ssd_core.lambda_forget, distance)
          IN  /\ ssd_state'.kappa[chosen] <= ssd_state.kappa[chosen]
              /\ (distance > 0 /\ decay > 0)
                    => ssd_state'.kappa[chosen] < ssd_state.kappa[chosen]
              /\ ssd_state'.kappa[chosen] >= ssd_core.kappa_min
              /\ ssd_state'.kappa[chosen] - ssd_core.kappa_min = distance - decay]_vars

\* C15: in every reachable learning state, the state initialize_state returns
\* before the first update included, every class's inertia is at least
\* kappa_min.
C15_InertiaFloorAlways ==
    \A s \in StrategySet : ssd_state.kappa[s] >= ssd_core.kappa_min

\* C16: the step of a set boundary that resets the set scores leaves every
\* agent's temperature at that agent's configured base temperature T_base, the
\* value initialize_state gave it.
C16_TemperatureResetToBase ==
    [][\A i \in Processes :
          (games'[i] # games[i] /\ games'[i].last_call.op = "reset_set_score")
             => \A p \in Players :
                   games'[i].players[p].ssd_state.T =
                       initialize_state(player_core(tournament_config, p)).T]_vars

\* C17: a step changes a player's inertia map, energy or jump_count only when
\* it is the result step of that player (process_result, the post-round
\* learning update); the choice steps, the set-score and temperature reset,
\* the HP purchase and the environment shift with its vote leave the three
\* fields as they were.
C17_LearningFrame ==
    [][\A i \in Processes : \A p \in Players :
          (\/ games'[i].players[p].ssd_state.kappa # games[i].players[p].ssd_state.kappa
           \/ games'[i].players[p].ssd_state.E # games[i].players[p].ssd_state.E
           \/ games'[i].players[p].ssd_state.jump_count
                 # games[i].players[p].ssd_state.jump_count)
          => /\ games[i].pc = "process_result"
             /\ games[i].choices[games[i].position].player = p
             /\ games'[i].last_call = [op |-> "process_result", player |-> p]]_vars

\* an agent with learnt inertia, energy and a counted jump has gone through a
\* set boundary (reset, environment shift, HP purchase) and chosen again
C17_Witness ==
    \E i \in Processes : \E p \in Players :
        /\ games[i].set_num = 2
        /\ games[i].pc = "scores"
        /\ games[i].players[p].ssd_state.jump_count > 0
        /\ games[i].players[p].ssd_state.E > 0
        /\ games[i].players[p].ssd_state.kappa["low_risk"]
              # games[i].players[p].ssd_state.kappa["high_risk"]
        /\ games[i].players[p].hp > tournament_config.starting_hp - tournament_config.crash_hp_loss
        /\ games[i].current_environment = "volatile"

(***************************************************************************)
(* Scores                                                                  *)
(***************************************************************************)
\* C18: when the tournament has ended, each player's total_score is its
\* starting score plus the sum of its round score changes over all the sets
\* played, the final set included (the bonus of a success at 1 HP counted
\* with them), plus the set-rank bonuses it was awarded, minus what it spent
\* on HP.
C18_TotalScoreCumulative ==
    \A i \in Processes : \A p \in Players :
        games[i].pc = "done" =>
            games[i].players[p].total_score =
                tournament_config.starting_score
                  + games[i].players[p].ledger.round_changes
                  + games[i].players[p].ledger.risk_bonuses
                  + games[i].players[p].ledger.rank_bonuses
                  - games[i].players[p].ledger.hp_spent

(***************************************************************************)
(* Completion                                                              *)
(***************************************************************************)
\* C19: play_tournament never raises, and when it has reached the end the
\* last set and its last round have been played and no more players are alive
\* than started.
C19_TournamentCompletes ==
    \A i \in Processes :
        /\ games[i].pc # "raised"
        /\ games[i].raised = "None"
        /\ games[i].pc = "done" =>
              /\ games[i].set_num = tournament_config.sets
              /\ games[i].round_num = tournament_config.rounds
              /\ Cardinality({p \in Players : games[i].players[p].is_alive})
                    <= Len(tournament_config.players)

(***************************************************************************)
(* Elimination-line pressure                                               *)
(***************************************************************************)
\* the largest overall gap the elimination-line pressure is compared over
MaxGap == 160

\* C20: for the context of the call and for every overall gap in its place,
\* both implementations of the elimination-line pressure (the function of
\* pressure/elimination_pressure.py and the lines of
\* ChickenPlayer._calculate_meaning_pressure) return 0 when total_sets <= 1,
\* the overall rank is 1 or the overall gap is <= 0, and otherwise the value
\* of the margin's band: 5.0 for a margin <= 0, 3.0 below 0.3, 2.0 below 0.7,
\* 1.0 below 1.2 of one average remaining set's maximum yield, 0.0 from there
\* on; and a gap larger by one (a margin smaller by one, everything else
\* fixed) never gives a smaller pressure.
C20_EliminationLineMonotone ==
    pressure_result.called =>
        LET with_gap(gap) == [decision_context EXCEPT !.overall_gap = gap]
            of_player(gap) ==
                elimination_line_pressure(game_config, player_state, with_gap(gap))
            of_calculator(gap) ==
                calculate_elimination_line_pressure(game_config, with_gap(gap))
            band(margin, per_set) ==
                IF margin <= 0 THEN 5000
                ELSE IF 10 * margin < 3 * per_set THEN 3000
                ELSE IF 10 * margin < 7 * per_set THEN 2000
                ELSE IF 10 * margin < 12 * per_set THEN 1000
                ELSE 0
            off == \/ decision_context.total_sets <= 1
                   \/ decision_context.overall_rank <= 1
        IN  \A gap \in (-1)..MaxGap :
               /\ of_player(gap) \in {5000, 3000, 2000, 1000, 0}
               /\ of_calculator(gap) \in {5000, 3000, 2000, 1000, 0}
               /\ (off \/ gap <= 0) => of_player(gap) = 0 /\ of_calculator(gap) = 0
               /\ ~(off \/ gap <= 0) =>
                     /\ of_player(gap) =
                           band(elimination_max_possible_gain_overall(
                                    game_config, player_state, with_gap(gap)) - gap,
                                avg_max_per_set(game_config, decision_context))
                     /\ of_calculator(gap) =
                           band(calculator_elimination_max_gain(
                                    game_config, with_gap(gap)) - gap,
                                calculator_avg_max_per_set(game_config, decision_context))
               /\ (gap >= 1 /\ gap < MaxGap) =>
                     /\ of_player(gap + 1) >= of_player(gap)
                     /\ of_calculator(gap + 1) >= of_calculator(gap)

\* a trailing agent in a tournament of several sets whose margin lies in the
\* band below 1.2 of a set's yield, and for which other gaps reach each of
\* the values 5.0, 3.0, 2.0 and 0.0
C20_Witness ==
    /\ pressure_result.called
    /\ decision_context.total_sets > 1
    /\ decision_context.overall_rank > 1
    /\ decision_context.overall_gap > 0
    /\ \E gap \in 1..MaxGap :
          /\ calculate_elimination_line_pressure(
                 game_config, [decision_context EXCEPT !.overall_gap = gap]) = 3000
          /\ elimination_line_pressure(game_config, player_state,
                 [decision_context EXCEPT !.overall_gap = gap]) = 3000
    /\ \E gap \in 1..MaxGap :
          /\ calculate_elimination_line_pressure(
                 game_config, [decision_context EXCEPT !.overall_gap = gap]) = 2000
          /\ elimination_line_pressure(game_config, player_state,
                 [decision_context EXCEPT !.overall_gap = gap]) = 2000
    /\ calculate_elimination_line_pressure(game_config, decision_context) = 1000
    /\ calculate_elimination_line_pressure(
           game_config, [decision_context EXCEPT !.overall_gap = MaxGap]) = 5000
    /\ calculate_elimination_line_pressure(
           game_config, [decision_context EXCEPT !.overall_gap = 1]) = 0

(***************************************************************************)
(* The pipeline of a round: decide, resolve, learn                         *)
(***************************************************************************)
\* C21: in every round the choices come first and the learning after them.
\* While the players are asked (pc = "decide") nobody has a result of the
\* round yet; when the results are processed (pc = "process_result") every
\* alive player has chosen, each of them once and in the order asked; the
\* inertia, energy and jump_count of a player change only in that player's
\* own result step, of which the round has exactly one for each player that
\* chose (at the end of the round choice_history and success_history are
\* equally long); last_strategy is written only by the player's own decision;
\* and the result step of an SSD agent reinforces the class its decision of
\* the round recorded as last_strategy, lets the other classes forget, and
\* does both with the round's score change scores[player] as reward.
C21_DecideResolveLearn ==
    [][\A i \in Processes : \A p \in Players :
          LET g      == games[i]
              before == games[i].players[p]
              after  == games'[i].players[p]
              core   == player_core(tournament_config, p)
              modifiers == player_learning_modifiers(tournament_config, p)
              asked(q, upto) == \E k \in 1..upto : g.alive_players[k] = q
              own_decision == g.pc = "decide" /\ g.alive_players[g.position] = p
              own_result == g.pc = "process_result" /\ g.choices[g.position].player = p
              normalized_reward == TanhMilli(g.scores[p] * 20)
              W_align == normalized_reward
                         - MulMilli(core.rho, MulMilli(normalized_reward, normalized_reward))
          IN  /\ (g.pc = "decide" /\ asked(p, Len(g.alive_players))) =>
                    /\ Len(g.choices) = g.position - 1
                    /\ Len(before.choice_history) =
                          Len(before.success_history)
                          + (IF asked(p, g.position - 1) THEN 1 ELSE 0)
              /\ (g.pc = "process_result" /\ asked(p, Len(g.alive_players))) =>
                    /\ Len(g.choices) = Len(g.alive_players)
                    /\ \A k \in 1..Len(g.choices) : g.choices[k].player = g.alive_players[k]
                    /\ \A k, l \in 1..Len(g.choices) :
                          g.choices[k].player = g.choices[l].player => k = l
                    /\ Len(before.choice_history) =
                          Len(before.success_history)
                          + (IF \E k \in 1..(g.position - 1) : g.choices[k].player = p
                             THEN 0 ELSE 1)
              /\ (g.pc = "end_round" /\ g.round_played
                  /\ asked(p, Len(g.alive_players))) =>
                    Len(before.choice_history) = Len(before.success_history)
              /\ (\/ after.ssd_state.kappa # before.ssd_state.kappa
                  \/ after.ssd_state.E # before.ssd_state.E
                  \/ after.ssd_state.jump_count # before.ssd_state.jump_count
                  \/ after.success_history # before.success_history)
                 => own_result
              /\ after.ssd_state.last_strategy # before.ssd_state.last_strategy
                 => own_decision /\ after.ssd_state.last_strategy \in StrategySet
              /\ (own_decision /\ games'[i] # g /\ before.rule_name = "None")
                 => after.ssd_state.last_strategy \in StrategySet
              /\ (own_result /\ games'[i] # g /\ before.rule_name = "None") =>
                    /\ before.ssd_state.last_strategy \in StrategySet
                    /\ after.ssd_state.last_strategy = before.ssd_state.last_strategy
                    /\ after.round_score = g.scores[p]
                    /\ after.ssd_state.kappa =
                          [s \in StrategySet |->
                              IF s = before.ssd_state.last_strategy
                              THEN update_kappa_chosen(core, before.ssd_state.kappa[s],
                                                       W_align, modifiers.learning_speed)
                              ELSE forget_other(core, before.ssd_state.kappa[s])]
                    /\ after.ssd_state.E \in
                          {0, update_energy(core, before.ssd_state.E, normalized_reward,
                                            before.ssd_state.kappa[before.ssd_state.last_strategy],
                                            modifiers.pressure_sensitivity)}]_vars

\* a second round has been played to its end by an SSD agent that won points
\* in one round and lost points in another, with different classes chosen by
\* the agents of the round
C21_Witness ==
    \E i \in Processes : \E p, q \in Players :
        /\ games[i].pc = "end_round"
        /\ games[i].round_played
        /\ games[i].round_num >= 2
        /\ games[i].players[p].rule_name = "None"
        /\ games[i].players[q].rule_name = "None"
        /\ games[i].players[p].ssd_state.last_strategy \in StrategySet
        /\ games[i].players[q].ssd_state.last_strategy \in StrategySet
        /\ games[i].players[p].ssd_state.last_strategy
              # games[i].players[q].ssd_state.last_strategy
        /\ games[i].players[p].round_score > 0
        /\ Len(games[i].players[p].success_history) >= 2
        /\ \E k \in 1..Len(games[i].players[p].success_history) :
              ~games[i].players[p].success_history[k]
        /\ \E s, t \in StrategySet :
              games[i].players[p].ssd_state.kappa[s] # games[i].players[p].ssd_state.kappa[t]

(***************************************************************************)
(* The final round of a set that is not the last                           *)
(***************************************************************************)
\* C22: on the final round of a set that is not the tournament's final set
\* the pressure of both aggregators (ChickenPlayer._calculate_meaning_pressure
\* and MeaningPressureCalculator.calculate) is their pressure before the
\* final-round rule times finality_weight, plus, for a set rank above 1 only,
\* desperation_bonus * (rank - 1) + gap / 20.
C22_FinalityRule ==
    (/\ pressure_result.called
     /\ decision_context.is_final_round
     /\ decision_context.current_set # decision_context.total_sets)
    => LET desperation ==
               IF decision_context.current_rank > 1
               THEN game_config.desperation_bonus * (decision_context.current_rank - 1)
                    + decision_context.score_gap_from_first * 50
               ELSE 0
       IN  /\ pressure_result.pressure =
                 MulMilli(pressure_result.pre_final, game_config.finality_weight)
                 + desperation
           /\ pressure_result.calculator_pressure =
                 MulMilli(pressure_result.calculator_pre_final, game_config.finality_weight)
                 + desperation

(***************************************************************************)
(* The within-set "reversal impossible" flag                               *)
(***************************************************************************)
\* C23: the within-set flag reports reversal as impossible exactly in the
\* band of value 2.0, a gap to the set leader above max_achievable plus the
\* rank bonus; in the band of value 1.5 (gap above max_achievable but not
\* above max_achievable + bonus) and in the bands 1.0 and 0.5 it reports
\* reversal as possible; for a rank-1 agent or a gap <= 0 the value is 0 and
\* the flag is clear.  Stated of the flag the agent keeps on its state
\* (eliminated_reversal_possible) and of the one calculate_reversal_pressure
\* returns.
C23_SetReversalFlag ==
    pressure_result.called =>
        LET gap == decision_context.score_gap_from_first
            max_set_bonus == IntOfMilli(DictGet(game_config.set_rank_bonus, 1, 30)
                                        * decision_context.env_bonus_multiplier)
            max_achievable == max_possible_gain_in_set(game_config, player_state,
                                                       decision_context)
            band == IF decision_context.current_rank = 1 \/ gap <= 0 THEN 0
                    ELSE IF gap > max_achievable + max_set_bonus THEN 2000
                    ELSE IF gap > max_achievable THEN 1500
                    ELSE IF 2 * gap > max_achievable THEN 1000
                    ELSE 500
            returned == calculate_reversal_pressure(
                            decision_context.current_rank, gap,
                            game_config.max_points_per_round,
                            decision_context.remaining_rounds, max_set_bonus,
                            player_state.hp)
        IN  /\ set_reversal_impossibility(game_config, player_state, decision_context) = band
            /\ returned[1] = band
            /\ returned[2] = (band # 2000)
            /\ pressure_result.flags.eliminated_reversal_possible = (band # 2000)

(***************************************************************************)
(* The maximum achievable across all remaining play                        *)
(***************************************************************************)
\* C24: the most an agent can still gain in the tournament is the same number
\* in the elimination-line signal and in the overall reversal signal, in the
\* lines of ChickenPlayer._calculate_meaning_pressure and in the functions of
\* pressure/; and so, for an agent that trails overall in a tournament of
\* several sets, whatever the overall gap, the elimination-line signal has
\* margin <= 0 (its value 5.0) exactly when the overall reversal signal is in
\* its 'impossible' band (value 2.0).
C24_SameMaximumAchievable ==
    pressure_result.called =>
        /\ elimination_max_possible_gain_overall(game_config, player_state, decision_context)
              = reversal_max_possible_gain_overall(game_config, player_state,
                                                   decision_context)
        /\ calculator_elimination_max_gain(game_config, decision_context)
              = calculator_reversal_max_gain(game_config, decision_context)
        /\ (decision_context.total_sets > 1 /\ decision_context.overall_rank > 1) =>
              \A gap \in 1..MaxGap :
                 LET a == [decision_context EXCEPT !.overall_gap = gap]
                 IN  /\ (elimination_line_pressure(game_config, player_state, a) = 5000)
                        <=> (overall_reversal_impossibility(game_config, player_state, a)
                             = 2000)
                     /\ (calculate_elimination_line_pressure(game_config, a) = 5000)
                        <=> (calculate_overall_reversal_pressure(game_config, a)[1] = 2000)

(***************************************************************************)
(* The bands of the rule-based strategy and the environment                *)
(***************************************************************************)
\* C25: whenever a rule-based agent chooses, the safe set and the push set
\* it chooses from are the lowest-risk third and the highest-leverage third
\* of the actions under the crash probabilities and success bonuses in force
\* at that choice, so after an environment shift they are those of the new
\* values and not those of the agent's first decision.
C25_BandsFollowEnvironment ==
    [][\A i \in Processes : \A p \in Players :
          (/\ games[i].pc = "decide"
           /\ games[i].alive_players[games[i].position] = p
           /\ games[i].players[p].rule_name # "None"
           /\ games'[i] # games[i])
          => games'[i].players[p].rule_bands
                = RuleStrategy_calibrate_bands(tournament_config, games[i])]_vars

(***************************************************************************)
(* The HP-fear override                                                    *)
(***************************************************************************)
\* C26: the factors _apply_hp_fear_adjustment multiplies the scores with.
\* At an HP ratio <= 0.2 they are the desperate ones (action 1 x10, 2-5 x5,
\* 6-8 x2, 9-10 x0.5) exactly when the pressure is >= 5.0 and the skew to
\* action 1 (action 1 x100, 8-10 x0.01) exactly when it is below 5.0; the
\* band <= 0.4 (factors 1 + 0.8 f, 1 + 0.3 f, max(0.1, 1 - 0.5 f) with
\* f = 5 (1 - ratio)) applies only above 0.2, the band <= 0.6 (1-7 x1.5,
\* 9-10 x0.7) only above 0.4, and above 0.6 every factor is 1; and the
\* distribution a softmax call returned is the softmax of the scores
\* multiplied with these factors.
C26_HpFearBands ==
    (choice # 0 /\ SoftmaxPath) =>
        LET hp == choice_args.state.hp
            max_hp == ssd_strategy.max_hp
            pressure == choice_args.meaning_pressure
            factor(i) == hp_fear_factor(i, hp, max_hp, pressure)
            desperate == [i \in Actions |->
                             IF i = 1 THEN 10000 ELSE IF i <= 5 THEN 5000
                             ELSE IF i <= 8 THEN 2000 ELSE 500]
            fear == (1000 - (hp * 1000) \div max_hp) * 5
            scores == _apply_personality_weights(ssd_strategy,
                          _apply_history_learning(choice_args.state,
                              _apply_band_strategy(
                                  IF ssd_strategy.band_aware
                                  THEN _calibrate_bands(ssd_strategy) ELSE ssd_strategy,
                                  [i \in Actions |-> 1000], pressure)))
            T_adjusted == MulMilli(choice_args.ssd_state.T,
                                   1000 + MulMilli(pressure, 300))
        IN  /\ (5 * hp <= max_hp /\ pressure >= 5000) =>
                  \A i \in Actions : factor(i) = desperate[i]
            /\ (5 * hp <= max_hp /\ pressure < 5000) =>
                  /\ factor(1) = 100000
                  /\ \A i \in 8..10 : factor(i) = 10
                  /\ \E i \in Actions : factor(i) # desperate[i]
            /\ (5 * hp > max_hp /\ 5 * hp <= 2 * max_hp) =>
                  /\ \A i \in 1..5 : factor(i) = 1000 + MulMilli(fear, 800)
                  /\ \A i \in 6..7 : factor(i) = 1000 + MulMilli(fear, 300)
                  /\ \A i \in 8..10 : factor(i) = Max(100, 1000 - MulMilli(fear, 500))
            /\ (5 * hp > 2 * max_hp /\ 5 * hp <= 3 * max_hp) =>
                  /\ \A i \in 1..7 : factor(i) = 1500
                  /\ factor(8) = 1000
                  /\ \A i \in 9..10 : factor(i) = 700
            /\ 5 * hp > 3 * max_hp => \A i \in Actions : factor(i) = 1000
            /\ choice_probabilities.num =
                  [i \in Actions |->
                      ExpMilli((MulMilli(scores[i], factor(i)) * 1000) \div T_adjusted)]

\* a softmax call for an agent at an HP ratio of 0.2 under a pressure of
\* exactly 5.0, answered with a distribution that prefers action 1 to 10
C26_Witness ==
    /\ choice # 0
    /\ SoftmaxPath
    /\ 5 * choice_args.state.hp = ssd_strategy.max_hp
    /\ choice_args.meaning_pressure = 5000
    /\ choice_probabilities.num[1] > choice_probabilities.num[10]

(***************************************************************************)
(* The final round of the final set for an agent that trails overall       *)
(***************************************************************************)
\* C27: in the final round of the final set an agent with overall_gap > 0
\* never takes the branch 'holding the set rank secures the overall win'
\* (factor 0.02 or 0.1), whatever the gap: with a positive environment bonus
\* multiplier, rank bonuses that are not negative and none above the rank-1
\* bonus, its predicted safe total does not exceed the leader's estimated
\* maximum, and its pressure is the one of the 'reversal impossible' branch
\* or of one of the two 'reversal possible' branches.
C27_SecuredBranchUnreachable ==
    (/\ pressure_result.called
     /\ decision_context.is_final_round
     /\ decision_context.current_set = decision_context.total_sets
     /\ decision_context.overall_gap > 0
     /\ decision_context.env_bonus_multiplier > 0
     /\ \A r \in DOMAIN game_config.set_rank_bonus :
           /\ game_config.set_rank_bonus[r] >= 0
           /\ game_config.set_rank_bonus[r] <= DictGet(game_config.set_rank_bonus, 1, 0))
    => LET rule == final_round_rule(game_config, player_state, decision_context)
           bonus(r) == IntOfMilli(DictGet(game_config.set_rank_bonus, r, 0)
                                  * decision_context.env_bonus_multiplier)
       IN  /\ rule.branch \in {"reversal_impossible", "safe_reversal", "risk_needed"}
           /\ pressure_result.pressure
                 = MulMilli(pressure_result.pre_final, rule.factor) + rule.addend
           /\ \A gap \in 1..MaxGap :
                 /\ final_round_rule(game_config, player_state,
                        [decision_context EXCEPT !.overall_gap = gap]).branch
                       # "safe_secures_win"
                 /\ 1000 * (player_state.total_score + bonus(decision_context.current_rank))
                       <= 1000 * (player_state.total_score + gap)
                          + 10 * decision_context.env_bonus_multiplier
                          + 1000 * bonus(1)

\* an agent first in the final set, 5 points behind overall, for which the
\* rank-1 bonus alone covers the gap: it is damped by the 'safe reversal'
\* branch (0.05) and not by the 'secured' one
C27_Witness ==
    /\ pressure_result.called
    /\ decision_context.is_final_round
    /\ decision_context.current_set = decision_context.total_sets
    /\ decision_context.overall_gap > 0
    /\ decision_context.current_rank = 1
    /\ final_round_rule(game_config, player_state, decision_context).branch = "safe_reversal"
    /\ pressure_result.pressure = MulMilli(pressure_result.pre_final, 50)
    /\ pressure_result.pre_final > 1000

(***************************************************************************)
(* The HP purchase                                                         *)
(***************************************************************************)
\* C28: in the HP-purchase phase the number of HP a player buys is at least 0
\* and at most min(total_score // hp_purchase_cost, max_hp - hp): the HP after
\* the purchase is at most max_hp, a total_score that was >= 0 stays >= 0, a
\* player whose total_score is negative or below the cost buys nothing, and
\* total_score falls by exactly purchases * hp_purchase_cost; nobody else's
\* HP or total_score changes in the step.
C28_HpPurchaseBounds ==
    [][\A i \in Processes : \A p \in Players :
          (games[i].pc = "hp_purchase" /\ games'[i] # games[i]) =>
              LET before == games[i].players[p]
                  after  == games'[i].players[p]
                  purchases == after.hp - before.hp
                  hp_cost == tournament_config.hp_purchase_cost
                  max_purchasable == Min(before.total_score \div hp_cost,
                                         tournament_config.max_hp - before.hp)
              IN  /\ purchases >= 0
                  /\ purchases <= Max(0, max_purchasable)
                  /\ after.total_score = before.total_score - purchases * hp_cost
                  /\ after.hp <= Max(before.hp, tournament_config.max_hp)
                  /\ before.total_score >= 0 => after.total_score >= 0
                  /\ before.total_score < hp_cost => purchases = 0
                  /\ games[i].position # p => purchases = 0
                  /\ after.ledger.hp_spent = before.ledger.hp_spent + purchases * hp_cost]_vars

\* a player has just bought more than one HP and paid for them, and another
\* player of the same tournament could not afford any
C28_Witness ==
    \E i \in Processes : \E p, q \in Players :
        /\ games[i].last_call = [op |-> "decide_hp_purchase_with_environment", player |-> p]
        /\ games[i].players[p].ledger.hp_spent >= 2 * tournament_config.hp_purchase_cost
        /\ games[i].players[p].hp >= 3
        /\ games[i].players[p].total_score >= 0
        /\ games[i].players[q].is_alive
        /\ games[i].players[q].total_score < tournament_config.hp_purchase_cost
        /\ games[i].players[q].hp < tournament_config.max_hp
        /\ games[i].players[q].ledger.hp_spent = 0

(***************************************************************************)
(* Choice history and outcome history                                      *)
(***************************************************************************)
\* C29: choice_history and success_history only grow, by one entry at a
\* time: a player's decision appends the choice it made to choice_history and
\* leaves success_history alone, the processing of its result appends the
\* outcome (score change > 0) to success_history and leaves choice_history
\* alone, and no other step touches either.  When a player is about to decide
\* the two are equally long, and the outcome appended by a result step has the
\* index of the choice of the same round, so the history-reinforcement step
\* pairs each past choice with the outcome of its round.
C29_HistoriesAligned ==
    [][\A i \in Processes : \A p \in Players :
          LET g      == games[i]
              before == games[i].players[p]
              after  == games'[i].players[p]
              own_decision == g.pc = "decide" /\ g.alive_players[g.position] = p
              own_result == g.pc = "process_result" /\ g.choices[g.position].player = p
          IN  /\ Len(after.choice_history) >= Len(before.choice_history)
              /\ SubSeq(after.choice_history, 1, Len(before.choice_history))
                    = before.choice_history
              /\ Len(after.success_history) >= Len(before.success_history)
              /\ SubSeq(after.success_history, 1, Len(before.success_history))
                    = before.success_history
              /\ own_decision => Len(before.choice_history) = Len(before.success_history)
              /\ (own_decision /\ games'[i] # g) =>
                    /\ after.choice_history
                          = Append(before.choice_history, after.current_choice)
                    /\ after.success_history = before.success_history
              /\ (own_result /\ games'[i] # g) =>
                    /\ after.success_history
                          = Append(before.success_history, g.scores[p] > 0)
                    /\ after.choice_history = before.choice_history
                    /\ Len(after.success_history) = Len(after.choice_history)
                    /\ before.choice_history[Len(before.choice_history)]
                          = g.choices[g.position].choice
              /\ ~(own_decision \/ own_result) =>
                    /\ after.choice_history = before.choice_history
                    /\ after.success_history = before.success_history]_vars

\* a player with three rounds behind it, won and lost ones among them, is
\* about to decide again
C29_Witness ==
    \E i \in Processes : \E p \in Players :
        /\ games[i].pc = "decide"
        /\ games[i].alive_players[games[i].position] = p
        /\ Len(games[i].players[p].choice_history) >= 3
        /\ Len(games[i].players[p].success_history)
              = Len(games[i].players[p].choice_history)
        /\ \E k \in 1..Len(games[i].players[p].success_history) :
              games[i].players[p].success_history[k]
        /\ \E k \in 1..Len(games[i].players[p].success_history) :
              ~games[i].players[p].success_history[k]

(***************************************************************************)
(* Choices are private within a round                                      *)
(***************************************************************************)
\* C30: a player's decision writes nothing another player's decision reads.
\* The step in which a player chooses leaves every other player's state (HP,
\* scores, histories, opponent-choice histories, learning state, bands) and
\* the arguments play_round will hand to it (ranks, gaps, alive count, set
\* and round, environment) unchanged, as well as the crash probabilities and
\* bonuses; numpy's generator, from which strategy classes and actions are
\* drawn, it leaves in a state that does not depend on the action chosen
\* (two draws further for an SSD agent, untouched by a rule-based one).  HP,
\* scores, learning state and opponent-choice histories change only once
\* every alive player of the round has chosen.  The inputs of a decision are
\* its arguments and the player's own state; the draws come from the
\* generators the process shares.
C30_ChoicesPrivate ==
    [][\A i \in Processes : \A p \in Players :
          LET g == games[i]
              h == games'[i]
              deciding == g.pc = "decide" /\ h # g
              chooser == g.alive_players[g.position]
          IN  /\ (deciding /\ chooser # p) =>
                    /\ h.players[p] = g.players[p]
                    /\ (p \in DOMAIN g.ranks) =>
                          round_context(tournament_config, h, p)
                             = round_context(tournament_config, g, p)
              /\ (deciding /\ chooser = p) =>
                    /\ h.crash_probabilities = g.crash_probabilities
                    /\ h.success_bonuses = g.success_bonuses
                    /\ h.alive_players = g.alive_players
                    /\ h.players[p].hp = g.players[p].hp
                    /\ h.players[p].success_history = g.players[p].success_history
                    /\ h.players[p].opponent_choices = g.players[p].opponent_choices
                    /\ h.np_rng = IF g.players[p].rule_name # "None" THEN g.np_rng
                                  ELSE np_state(g.np_rng, 2)
                    /\ h.choices = Append(g.choices, h.choices[Len(h.choices)])
                    /\ h.choices[Len(h.choices)].player = p
                    /\ h.choices[Len(h.choices)].choice = h.players[p].current_choice
              /\ (\/ h.players[p].hp # g.players[p].hp
                  \/ h.players[p].opponent_choices # g.players[p].opponent_choices
                  \/ h.players[p].ssd_state.kappa # g.players[p].ssd_state.kappa
                  \/ h.players[p].ssd_state.E # g.players[p].ssd_state.E
                  \/ h.players[p].score # g.players[p].score)
                 => \/ g.pc \notin {"play_round", "decide", "scores",
                                    "process_result", "end_round"}
                    \/ /\ g.pc \in {"scores", "process_result", "end_round"}
                       /\ g.round_played => Len(g.choices) = Len(g.alive_players)]_vars

\* in a later round a player has chosen an action other than its previous
\* one, and an SSD agent is still to be asked, with that player's earlier
\* choices on record only
C30_Witness ==
    \E i \in Processes : \E p, q \in Players :
        /\ games[i].pc = "decide"
        /\ games[i].position >= 2
        /\ games[i].alive_players[games[i].position] = q
        /\ games[i].players[q].ssd_state.last_strategy \in StrategySet
        /\ games[i].choices[1].player = p
        /\ p \in DOMAIN games[i].players[q].opponent_choices
        /\ Len(games[i].players[q].opponent_choices[p]) >= 1
        /\ Len(games[i].players[q].opponent_choices[p])
              = Len(games[i].players[p].choice_history) - 1
        /\ games[i].players[q].opponent_choices[p][Len(games[i].players[q].opponent_choices[p])]
              # games[i].choices[1].choice

====
